---- MODULE Spec2Model ----
(***************************************************************************)
(* Model of odin.ml.plda.PLDA (src/odin/ml/plda.py), of the detection    *)
(* and edit-distance metrics of src/odin/backend/metrics.py and of         *)
(* add_role (src/odin/roles.py).                                           *)
(*                                                                         *)
(* One PLDA instance `self` is driven through its public calls.  Matrices  *)
(* are records [rows, cols, val]: the shape is kept as the code keeps it   *)
(* and `val` is the expression that produced the matrix, written out as a *)
(* string, so that the numpy/scipy kernels (inv, solve,                    *)
(* svd, cholesky, dot) are uninterpreted functions of their arguments.  A  *)
(* kernel that can raise LinAlgError is a nondeterministic choice between  *)
(* returning and raising.  The matrices a maximization step assigns are   *)
(* named ("#1", "#2", ...) and their expressions kept in `defs`, so that   *)
(* expressions do not grow with the number of rounds.                      *)
(* The EM fit is modelled step by step (fitpc) so                          *)
(* that the order of its steps is visible; no other call can start while   *)
(* a fit is running (the code is single threaded).                         *)
(* The expectation step and the per-class sums of fit are also evaluated  *)
(* on numbers (SpecExp, SpecFit), as the scoring arithmetic is (SpecScore).*)
(***************************************************************************)
EXTENDS Integers, Sequences, FiniteSets, TLC

\* ---------------------------------------------------------------- bounds
MaxPhi == 2
MaxIter == 2
MaxFeatDim == 3

\* ---------------------------------------------------------------- values
None == 0
NoneL == <<-1>>
NoneM == [rows |-> 0, cols |-> 0, val |-> "None"]
Absent == [rows |-> 0, cols |-> 0, val |-> "absent"]
NoErr == "ok"
NoBundle == <<>>

Mat(r, c, v) == [rows |-> r, cols |-> c, val |-> v]

S(n) == ToString(n)

RECURSIVE SeqStr(_)
SeqStr(q) == IF q = <<>> THEN "]" ELSE S(Head(q)) \o "," \o SeqStr(Tail(q))

\* the expression f(a) and f(a, b)
Fn1(f, a) == f \o "(" \o a \o ")"
Fn2(f, a, b) == f \o "(" \o a \o "," \o b \o ")"

\* ---------------------------------------------------------------- inputs
\* label vectors y (sorted): two classes, one class whose label is beyond
\* the class count, a negative label
Ys == {<<0, 1>>, <<1, 1>>, <<-1, 0>>}

\* feature dimensions of the data: the largest num_phi and one more
FeatDims == (MaxFeatDim - 1)..MaxFeatDim

\* a feature matrix X is known by its shape and the labels it comes with
DataX(y, d, rows) == Mat(rows, d, "X" \o S(rows) \o "x" \o S(d) \o "[" \o SeqStr(y))

\* the arguments <<num_phi, num_iter, labels, verbose>> of the constructor:
\* every num_phi, num_iter and verbose without labels, and every num_phi
\* with two labels given
CtorArgs ==
  ((1..MaxPhi) \X (0..MaxIter) \X {NoneL} \X (0..2))
    \cup ((1..MaxPhi) \X {0} \X {<<100, 101>>} \X {0})

\* matrices handed to transform / predict_log_proba
QueryX == {Mat(1, d, "Xq" \o S(d)) : d \in FeatDims}
QueryModels(X) == {NoneM} \cup {Mat(r, X.cols, "Xm" \o S(r) \o "x" \o S(X.cols)) : r \in 1..2}

\* np.unique(y) of a sorted y: its distinct values in order
RECURSIVE unique(_)
unique(q) ==
  IF q = <<>> THEN <<>>
  ELSE LET r == unique(Tail(q)) IN
       IF r # <<>> /\ Head(r) = Head(q) THEN r ELSE <<Head(q)>> \o r

\* np.bincount(y) of a sorted y >= 0: counts of 0..max(y)
bincount(q) ==
  [c \in 1..(q[Len(q)] + 1) |-> Cardinality({i \in 1..Len(q) : q[i] = c - 1})]

\* ---------------------------------------------------------------- state
\* self   : the fields of the PLDA instance
\* fitpc  : position inside a running fit(), "idle" between public calls
\* loc    : the local variables of the running fit()
\* ret    : outcome of the last public call (error raised, value returned)
\* defs   : the expressions of the matrices named "#1", "#2", ...
\* sc     : one evaluation of the scoring arithmetic of predict_log_proba
\*          on numeric matrices (used by SpecScore only)
\* mt     : one call of a function of metrics.py, or of expectation_plda
\*          on numbers, its arguments and its outcome (used by SpecDet,
\*          SpecCavg, SpecLev and SpecExp only)
\* tag    : var.tag of one variable, as add_role keeps it (SpecRoles only)
VARIABLES self, fitpc, loc, ret, defs, sc, mt, tag

vars == <<self, fitpc, loc, ret, defs, sc, mt, tag>>

\* the variables of the PLDA life cycle, and the others
plda_vars == <<self, fitpc, loc, ret, defs>>
others == <<sc, mt, tag>>

\* no call of a metrics function made, and a variable without a tag
NoCall == [fn |-> "none", args |-> <<>>, called |-> FALSE, err |-> NoErr, out |-> <<>>]
NoTag == [roles_set |-> FALSE, roles |-> <<>>, added |-> "none"]

\* PLDA.__init__ (it assigns no attribute _num_classes, and neither does
\* any other method of the class)
PLDA__init__(num_phi, num_iter, labels, verbose) ==
  [num_phi |-> num_phi, num_iter |-> num_iter, feat_dim |-> None,
   labels |-> labels, verbose_ |-> verbose,
   normalizer |-> "unfitted", normdim |-> None,
   dtype |-> "float64", rand_state |-> 0,
   Sigma_ |-> NoneM, Phi_ |-> NoneM, Sb_ |-> NoneM, St_ |-> NoneM,
   Lambda_ |-> Absent, Uk_ |-> Absent, Q_hat_ |-> Absent, X_model_ |-> Absent]

\* hasattr(self, '_num_classes')
has_num_classes(s) == FALSE

num_classes(s) == Len(s.labels)

\* an is_fitted that is satisfied by any one of the four attributes
is_fitted_any(s) ==
  ~ (s.Lambda_ = Absent /\ s.Uk_ = Absent /\ s.Q_hat_ = Absent /\ s.X_model_ = Absent)

is_fitted(s) ==
  ~ (s.Lambda_ = Absent \/ s.Uk_ = Absent \/ s.Q_hat_ = Absent \/ s.X_model_ = Absent)

NoLoc == [X |-> NoneM, y |-> <<>>, classes |-> <<>>, y_counts |-> <<>>,
          F |-> NoneM, X_sqr |-> NoneM, iter |-> 0,
          Ey |-> NoneM, Eyy |-> NoneM]

\* val: the matrix returned; tuple: the tuple __getstate__ returned or
\* __setstate__ was given; at: where the call ended; d, k: feature
\* dimension and number of distinct classes of the data given to a fit;
\* e_steps, m_steps, llk_calls, post: what the fit() that just ended ran
Ret(op, err, val) ==
  [op |-> op, err |-> err, val |-> val, tuple |-> NoBundle, at |-> "-",
   d |-> 0, k |-> 0,
   e_steps |-> 0, m_steps |-> 0, llk_calls |-> 0, post |-> FALSE]

NoRet == Ret("none", NoErr, NoneM)

\* ---------------------------------------------------------------- normalizer
\* VectorNormalizer.fit(X, y): the stored parameters are a function of the data
normalizer_fit(s, X) ==
  [s EXCEPT !.normalizer = Fn1("fitted", X.val), !.normdim = X.cols]

\* VectorNormalizer.transform(X): keeps the shape of X
normalizer_transform(s, X) ==
  Mat(X.rows, X.cols, Fn2("norm", s.normalizer, X.val))

\* transform of a matrix whose width is not the fitted width raises
normalizer_accepts(s, X) == s.normdim = X.cols

\* ---------------------------------------------------------------- helpers
randn(s, r, c) == Mat(r, c, "randn" \o S(s.rand_state))

zeros(r, c) == Mat(r, c, "zeros")

\* np.dot(A, B)
dot(A, B) == Mat(A.rows, B.cols, Fn2("dot", A.val, B.val))

\* A.T
T(A) == Mat(A.cols, A.rows, Fn1("T", A.val))

Sigma_init(s) ==
  Mat(s.feat_dim, s.feat_dim, Fn1("eye/d+", randn(s, s.feat_dim, s.feat_dim).val))

Phi_init(s) == T(normalizer_transform(s, randn(s, s.num_phi, s.feat_dim)))

\* initialize with the feat_dim <= num_phi test moved behind the allocation
initialize_late_check(s, X, labels) ==
  IF s.feat_dim = None
  THEN LET s1 == [s EXCEPT !.feat_dim = X.cols,
                           !.labels = IF s.labels = NoneL THEN labels ELSE @]
           s2 == [s1 EXCEPT !.Sigma_ = Sigma_init(s1), !.rand_state = @ + 1]
           s3 == [s2 EXCEPT !.Phi_ = Phi_init(s2), !.rand_state = @ + 1,
                            !.Sb_ = zeros(s1.feat_dim, s1.feat_dim),
                            !.St_ = zeros(s1.feat_dim, s1.feat_dim)]
       IN
       IF s3.feat_dim <= s3.num_phi THEN [s |-> s3, err |-> "RuntimeError"]
       ELSE IF num_classes(s3) # Len(labels) THEN [s |-> s3, err |-> "ValueError"]
       ELSE [s |-> s3, err |-> NoErr]
  ELSE [s |-> s, err |-> "AttributeError"]

\* initialize undoing its assignment of feat_dim when it rejects the data
initialize_resets_feat_dim(s, X, labels) ==
  LET feat_dim == X.cols
      validate(t) ==
        IF t.feat_dim # feat_dim THEN [s |-> t, err |-> "ValueError"]
        ELSE IF num_classes(t) # Len(labels) THEN [s |-> t, err |-> "ValueError"]
        ELSE [s |-> t, err |-> NoErr]
  IN
  IF s.feat_dim = None
  THEN LET s1 == [s EXCEPT !.feat_dim = feat_dim,
                           !.labels = IF s.labels = NoneL THEN labels ELSE @]
       IN
       IF s1.feat_dim <= s1.num_phi
       THEN [s |-> [s1 EXCEPT !.feat_dim = None], err |-> "RuntimeError"]
       ELSE LET s2 == [s1 EXCEPT !.Sigma_ = Sigma_init(s1),
                                 !.rand_state = @ + 1]
                s3 == [s2 EXCEPT !.Phi_ = Phi_init(s2),
                                 !.rand_state = @ + 1,
                                 !.Sb_ = zeros(s1.feat_dim, s1.feat_dim),
                                 !.St_ = zeros(s1.feat_dim, s1.feat_dim)]
            IN validate(s3)
  ELSE IF ~ has_num_classes(s)
       THEN [s |-> s, err |-> "AttributeError"]
       ELSE validate(s)

\* PLDA.initialize: the instance it leaves and the error it raises
initialize(s, X, labels) ==
  LET feat_dim == X.cols
      validate(t) ==
        IF t.feat_dim # feat_dim THEN [s |-> t, err |-> "ValueError"]
        ELSE IF num_classes(t) # Len(labels) THEN [s |-> t, err |-> "ValueError"]
        ELSE [s |-> t, err |-> NoErr]
  IN
  IF s.feat_dim = None
  THEN LET s1 == [s EXCEPT !.feat_dim = feat_dim,
                           !.labels = IF s.labels = NoneL THEN labels ELSE @]
       IN
       IF s1.feat_dim <= s1.num_phi
       THEN [s |-> s1, err |-> "RuntimeError"]
       ELSE LET s2 == [s1 EXCEPT !.Sigma_ = Sigma_init(s1),
                                 !.rand_state = @ + 1]
                s3 == [s2 EXCEPT !.Phi_ = Phi_init(s2),
                                 !.rand_state = @ + 1,
                                 !.Sb_ = zeros(s1.feat_dim, s1.feat_dim),
                                 !.St_ = zeros(s1.feat_dim, s1.feat_dim)]
            IN validate(s3)
  ELSE IF ~ has_num_classes(s)
       THEN [s |-> s, err |-> "AttributeError"]
       ELSE validate(s)

\* the three matrices _update_caches derives from Sb, St and num_phi
LambdaOf(Sb, St, k) == Mat(k, k, Fn2("Lambda" \o S(k), Sb.val, St.val))
UkOf(Sb, St, k) == Mat(St.rows, k, Fn2("Uk" \o S(k), Sb.val, St.val))
Q_hatOf(Sb, St, k) == Mat(k, k, Fn2("Q_hat" \o S(k), Sb.val, St.val))

\* PLDA._update_caches when inv and svd return
update_caches(s) ==
  [s EXCEPT !.Lambda_ = LambdaOf(s.Sb_, s.St_, s.num_phi),
            !.Uk_ = UkOf(s.Sb_, s.St_, s.num_phi),
            !.Q_hat_ = Q_hatOf(s.Sb_, s.St_, s.num_phi)]

\* np.dot(compute_class_avg(X, y, classes), Uk)
X_modelOf(Uk, X, classes) ==
  dot(Mat(Len(classes), X.cols, Fn1("class_avg", X.val)), Uk)

\* fit_maximum_likelihood calling initialize before it fits the normalizer
ml_fit_initialize_first(s, y, d, kernels_ok) ==
  LET X0 == DataX(y, d, Len(y))
      classes == unique(y)
      i == initialize(s, X0, classes)
      s1 == normalizer_fit(i.s, X0)
      X == normalizer_transform(s1, X0)
      St == Mat(d, d, Fn1("cov", T(X).val))
      Sb == Mat(d, d, Fn2("sub", St.val, Fn1("within_cov", X.val)))
      s2 == [s1 EXCEPT !.St_ = St, !.Sb_ = Sb]
      s3 == update_caches(s2)
      s4 == [s3 EXCEPT !.X_model_ = X_modelOf(s3.Uk_, X, classes)]
  IN
  IF i.err # NoErr THEN [s |-> i.s, err |-> i.err, at |-> "initialize"]
  ELSE IF ~ kernels_ok THEN [s |-> s2, err |-> "LinAlgError", at |-> "_update_caches"]
  ELSE [s |-> s4, err |-> NoErr, at |-> "done"]

\* fit_maximum_likelihood refreshing the caches before it assigns St_, Sb_
ml_fit_stale(s, y, d, kernels_ok) ==
  LET X0 == DataX(y, d, Len(y))
      s1 == normalizer_fit(s, X0)
      X == normalizer_transform(s1, X0)
      classes == unique(y)
      i == initialize(s1, X, classes)
      St == Mat(d, d, Fn1("cov", T(X).val))
      Sb == Mat(d, d, Fn2("sub", St.val, Fn1("within_cov", X.val)))
      s2 == update_caches(i.s)
      s3 == [s2 EXCEPT !.St_ = St, !.Sb_ = Sb]
      s4 == [s3 EXCEPT !.X_model_ = X_modelOf(s3.Uk_, X, classes)]
  IN
  IF i.err # NoErr THEN [s |-> i.s, err |-> i.err, at |-> "initialize"]
  ELSE IF ~ kernels_ok THEN [s |-> i.s, err |-> "LinAlgError", at |-> "_update_caches"]
  ELSE [s |-> s4, err |-> NoErr, at |-> "done"]

\* body of fit_maximum_likelihood; kernels_ok: inv and svd return
ml_fit(s, y, d, kernels_ok) ==
  LET X0 == DataX(y, d, Len(y))
      s1 == normalizer_fit(s, X0)
      X == normalizer_transform(s1, X0)
      classes == unique(y)
      i == initialize(s1, X, classes)
      St == Mat(d, d, Fn1("cov", T(X).val))
      Sb == Mat(d, d, Fn2("sub", St.val, Fn1("within_cov", X.val)))
      s2 == [i.s EXCEPT !.St_ = St, !.Sb_ = Sb]
      s3 == update_caches(s2)
      s4 == [s3 EXCEPT !.X_model_ = X_modelOf(s3.Uk_, X, classes)]
  IN
  IF i.err # NoErr THEN [s |-> i.s, err |-> i.err, at |-> "initialize"]
  ELSE IF ~ kernels_ok THEN [s |-> s2, err |-> "LinAlgError", at |-> "_update_caches"]
  ELSE [s |-> s4, err |-> NoErr, at |-> "done"]

\* the tuple __getstate__ returns
StateTuple(s) ==
  <<s.num_phi, s.num_iter, s.feat_dim, s.labels, s.verbose_,
    <<s.normalizer, s.normdim>>, s.dtype, s.rand_state,
    s.Sigma_, s.Phi_, s.Sb_, s.St_,
    s.Lambda_, s.Uk_, s.Q_hat_, s.X_model_>>

\* an unpacking that takes Sb_ and St_ in the other order
FromTuple_swapped(t) ==
  [num_phi |-> t[1], num_iter |-> t[2], feat_dim |-> t[3], labels |-> t[4],
   verbose_ |-> t[5], normalizer |-> t[6][1], normdim |-> t[6][2],
   dtype |-> t[7], rand_state |-> t[8],
   Sigma_ |-> t[9], Phi_ |-> t[10], Sb_ |-> t[12], St_ |-> t[11],
   Lambda_ |-> t[13], Uk_ |-> t[14], Q_hat_ |-> t[15], X_model_ |-> t[16]]

\* the assignment __setstate__ makes
FromTuple(t) ==
  [num_phi |-> t[1], num_iter |-> t[2], feat_dim |-> t[3], labels |-> t[4],
   verbose_ |-> t[5], normalizer |-> t[6][1], normdim |-> t[6][2],
   dtype |-> t[7], rand_state |-> t[8],
   Sigma_ |-> t[9], Phi_ |-> t[10], Sb_ |-> t[11], St_ |-> t[12],
   Lambda_ |-> t[13], Uk_ |-> t[14], Q_hat_ |-> t[15], X_model_ |-> t[16]]

\* tuples pickled from other fitted PLDA objects
OtherBundles ==
  {StateTuple(ml_fit(PLDA__init__(k, 0, NoneL, 0), <<0, 1>>, k + 1, TRUE).s) :
     k \in 1..MaxPhi}

\* ---------------------------------------------------------------- actions
\* PLDA.fit_maximum_likelihood(X, y)
fit_maximum_likelihood ==
  /\ fitpc = "idle"
  /\ \E y \in Ys, d \in FeatDims, kernels_ok \in BOOLEAN :
       LET r == ml_fit(self, y, d, kernels_ok) IN
       /\ self' = r.s
       /\ ret' = [Ret("fit_maximum_likelihood", r.err, NoneM) EXCEPT
                    !.at = r.at, !.d = d, !.k = Len(unique(y))]
  /\ UNCHANGED <<fitpc, loc>>
  /\ UNCHANGED <<defs, others>>

\* what fit() reports when it ends at position `at` with error err
FitRet(err, at, d, k) ==
  [Ret("fit", err, NoneM) EXCEPT !.at = at, !.d = d, !.k = k]

\* fit(): preprocessing, normalizer, initialize, F and X_sqr (lines 207-229)
fit_begin ==
  /\ fitpc = "idle"
  /\ \E y \in Ys, d \in FeatDims, len_ok \in BOOLEAN :
       LET rows == IF len_ok THEN Len(y) ELSE Len(y) + 1
           X0 == DataX(y, d, rows)
           classes == unique(y)
           s1 == normalizer_fit(self, X0)
           X == normalizer_transform(s1, X0)
           i == initialize(s1, X, classes)
           F == Mat(num_classes(i.s), i.s.feat_dim, Fn1("F", X.val))
           stop(s, err, at) ==
             /\ self' = s
             /\ ret' = FitRet(err, at, d, Len(classes))
             /\ UNCHANGED <<fitpc, loc>>
       IN
       IF X0.rows # Len(y) THEN stop(self, "AssertionError", "assert")
       ELSE IF y[1] < 0 THEN stop(self, "ValueError", "bincount")
       ELSE IF i.err # NoErr THEN stop(i.s, i.err, "initialize")
       ELSE IF \E c \in 1..Len(classes) : classes[c] >= F.rows
       THEN stop(i.s, "IndexError", "F")
       ELSE /\ self' = i.s
            /\ loc' = [NoLoc EXCEPT !.X = X, !.y = y, !.classes = classes,
                                    !.y_counts = bincount(y), !.F = F,
                                    !.X_sqr = dot(T(X), X)]
            /\ ret' = FitRet(NoErr, "running", d, Len(classes))
            /\ fitpc' = IF i.s.num_iter > 0 THEN "E" ELSE "post"
  /\ UNCHANGED <<defs, others>>

\* the running fit() raises err at position `at`
Abort(err, at) ==
  /\ fitpc' = "idle"
  /\ loc' = NoLoc
  /\ ret' = [ret EXCEPT !.err = err, !.at = at]

\* what expectation_plda returns for F and the class counts
EyOf(Phi, Sigma, F, counts) ==
  Mat(F.rows, Phi.cols,
      Fn2("Ey", Fn2("PhiT_invS", Sigma.val, Phi.val), F.val \o "[" \o SeqStr(counts)))
EyyOf(Phi, Sigma, F, counts) ==
  Mat(Phi.cols, Phi.cols,
      Fn2("Eyy", Fn2("PhiT_invS", Sigma.val, Phi.val), F.val \o "[" \o SeqStr(counts)))

\* an expectation step that rescales Sigma_ in place
expectation_plda_writes ==
  /\ fitpc = "E"
  /\ loc' = [loc EXCEPT
               !.Ey = EyOf(self.Phi_, self.Sigma_, loc.F, loc.y_counts),
               !.Eyy = EyyOf(self.Phi_, self.Sigma_, loc.F, loc.y_counts)]
  /\ self' = [self EXCEPT !.Sigma_ = T(@)]
  /\ ret' = [ret EXCEPT !.e_steps = @ + 1]
  /\ fitpc' = "M"
  /\ UNCHANGED <<defs, others>>

\* one call of expectation_plda from the loop of fit() (line 233)
expectation_plda ==
  /\ fitpc = "E"
  /\ \E kernels_ok \in BOOLEAN :
       IF ~ kernels_ok
       THEN Abort("LinAlgError", "expectation")
       ELSE IF Len(loc.y_counts) # loc.F.rows
       THEN Abort("IndexError", "expectation")
       ELSE /\ loc' = [loc EXCEPT
                         !.Ey = EyOf(self.Phi_, self.Sigma_, loc.F, loc.y_counts),
                         !.Eyy = EyyOf(self.Phi_, self.Sigma_, loc.F, loc.y_counts)]
            /\ ret' = [ret EXCEPT !.e_steps = @ + 1]
            /\ fitpc' = "M"
  /\ UNCHANGED self
  /\ UNCHANGED <<defs, others>>

\* the matrix M under the name of its expression in the table h (the next
\* free name if it is not there), and the table with the expression added
Named(h, M) ==
  [M EXCEPT !.val = "#" \o S(IF \E i \in 1..Len(h) : h[i] = M.val
                                THEN CHOOSE i \in 1..Len(h) : h[i] = M.val
                                ELSE Len(h) + 1)]
Define(h, M) == IF \E i \in 1..Len(h) : h[i] = M.val THEN h ELSE Append(h, M.val)

\* what maximization_plda assigns
PhiOf(Ey, Eyy, F) == T(Mat(Eyy.rows, F.cols, Fn2("solve", T(Eyy).val, dot(T(Ey), F).val)))
SigmaOf(X, X_sqr, Phi, Ey, F) ==
  Mat(X_sqr.rows, X_sqr.cols,
      Fn2("div" \o S(X.rows), X_sqr.val, dot(Phi, dot(T(Ey), F)).val))

\* one call of maximization_plda from the loop of fit() (line 237)
maximization_plda ==
  /\ fitpc = "M"
  /\ \E kernels_ok \in BOOLEAN :
       IF ~ kernels_ok
       THEN Abort("LinAlgError", "maximization") /\ UNCHANGED <<self, defs>>
       ELSE LET PhiE == PhiOf(loc.Ey, loc.Eyy, loc.F)
                Phi == Named(defs, PhiE)
                defs1 == Define(defs, PhiE)
                SigmaE == SigmaOf(loc.X, loc.X_sqr, Phi, loc.Ey, loc.F)
            IN
            /\ self' = [self EXCEPT !.Phi_ = Phi, !.Sigma_ = Named(defs1, SigmaE)]
            /\ defs' = Define(defs1, SigmaE)
            /\ ret' = [ret EXCEPT !.m_steps = @ + 1]
            /\ fitpc' = "llk"
            /\ UNCHANGED loc
  /\ UNCHANGED others

\* compute_llk is called only when verbose_ > 1
llk_wanted(s) == s.verbose_ > 1

\* a loop that may stop before num_iter rounds (a convergence test)
loop_end_early_stop ==
  /\ fitpc = "llk"
  /\ \E converged \in BOOLEAN :
       /\ loc' = [loc EXCEPT !.iter = @ + 1]
       /\ ret' = [ret EXCEPT !.llk_calls = IF llk_wanted(self) THEN @ + 1 ELSE @]
       /\ fitpc' = IF loc.iter + 1 < self.num_iter /\ ~ converged THEN "E" ELSE "post"
  /\ UNCHANGED self
  /\ UNCHANGED <<defs, others>>

\* end of one round of the loop: the log-likelihood diagnostic (lines
\* 240-245) and the loop test (line 230)
loop_end ==
  /\ fitpc = "llk"
  /\ \E cholesky_ok \in BOOLEAN :
       IF llk_wanted(self) /\ ~ cholesky_ok
       THEN Abort("LinAlgError", "compute_llk")
       ELSE /\ loc' = [loc EXCEPT !.iter = @ + 1]
            /\ ret' = [ret EXCEPT !.llk_calls = IF llk_wanted(self) THEN @ + 1 ELSE @]
            /\ fitpc' = IF loc.iter + 1 < self.num_iter THEN "E" ELSE "post"
  /\ UNCHANGED self
  /\ UNCHANGED <<defs, others>>

\* lines 247-248 with the caches refreshed before the two assignments
fit_scatter_caches_first ==
  /\ fitpc = "post"
  /\ LET Sb == dot(self.Phi_, T(self.Phi_))
         s1 == update_caches(self)
     IN
     self' = [s1 EXCEPT !.Sb_ = Sb,
                        !.St_ = Mat(Sb.rows, Sb.cols, Fn2("add", Sb.val, self.Sigma_.val))]
  /\ ret' = [ret EXCEPT !.post = TRUE]
  /\ fitpc' = "caches"
  /\ UNCHANGED loc
  /\ UNCHANGED <<defs, others>>

\* lines 247-248
fit_scatter ==
  /\ fitpc = "post"
  /\ LET Sb == dot(self.Phi_, T(self.Phi_)) IN
     self' = [self EXCEPT !.Sb_ = Sb,
                          !.St_ = Mat(Sb.rows, Sb.cols, Fn2("add", Sb.val, self.Sigma_.val))]
  /\ ret' = [ret EXCEPT !.post = TRUE]
  /\ fitpc' = "caches"
  /\ UNCHANGED loc
  /\ UNCHANGED <<defs, others>>

\* line 250
fit_update_caches ==
  /\ fitpc = "caches"
  /\ \E kernels_ok \in BOOLEAN :
       IF ~ kernels_ok
       THEN Abort("LinAlgError", "_update_caches") /\ UNCHANGED self
       ELSE /\ self' = update_caches(self)
            /\ fitpc' = "X_model"
            /\ UNCHANGED <<loc, ret>>
  /\ UNCHANGED <<defs, others>>

\* lines 251-252
fit_X_model ==
  /\ fitpc = "X_model"
  /\ self' = [self EXCEPT !.X_model_ = X_modelOf(self.Uk_, loc.X, loc.classes)]
  /\ fitpc' = "idle"
  /\ loc' = NoLoc
  /\ ret' = [ret EXCEPT !.at = "done"]
  /\ UNCHANGED <<defs, others>>

\* transform without the is_fitted test
transform_result_unchecked(s, X) ==
  IF ~ normalizer_accepts(s, X) \/ X.cols # s.Uk_.rows
  THEN Ret("transform", "ValueError", NoneM)
  ELSE Ret("transform", NoErr, dot(normalizer_transform(s, X), s.Uk_))

\* PLDA.transform(X): the error raised and the value returned
transform_result(s, X) ==
  IF ~ is_fitted(s) THEN Ret("transform", "RuntimeError", NoneM)
  ELSE IF ~ normalizer_accepts(s, X) \/ X.cols # s.Uk_.rows
  THEN Ret("transform", "ValueError", NoneM)
  ELSE Ret("transform", NoErr, dot(normalizer_transform(s, X), s.Uk_))

transform ==
  /\ fitpc = "idle"
  /\ \E X \in QueryX : ret' = transform_result(self, X)
  /\ UNCHANGED <<self, fitpc, loc>>
  /\ UNCHANGED <<defs, others>>

\* the score matrix of predict_log_proba (lines 365-373)
scores(X, X_model, Lambda, Q_hat) ==
  Mat(X.rows, X_model.rows,
      Fn2("scores", Fn2("X", X.val, X_model.val), Fn2("c", Lambda.val, Q_hat.val)))

\* predict_log_proba without the test of X_model.shape[0]
predict_result_nocheck(s, X, X_model) ==
  IF ~ is_fitted(s) THEN Ret("predict_log_proba", "RuntimeError", NoneM)
  ELSE IF X_model # NoneM /\ (~ normalizer_accepts(s, X_model) \/ X_model.cols # s.Uk_.rows)
  THEN [Ret("predict_log_proba", "ValueError", NoneM) EXCEPT !.at = "X_model"]
  ELSE LET Xm == IF X_model = NoneM THEN s.X_model_
                 ELSE dot(normalizer_transform(s, X_model), s.Uk_)
       IN
       IF ~ normalizer_accepts(s, X) \/ X.cols # s.Uk_.rows
       THEN [Ret("predict_log_proba", "ValueError", NoneM) EXCEPT !.at = "X"]
       ELSE Ret("predict_log_proba", NoErr,
                scores(dot(normalizer_transform(s, X), s.Uk_), Xm, s.Lambda_, s.Q_hat_))

\* PLDA.predict_log_proba(X, X_model); X_model = NoneM stands for None
predict_result(s, X, X_model) ==
  IF ~ is_fitted(s) THEN Ret("predict_log_proba", "RuntimeError", NoneM)
  ELSE IF X_model # NoneM /\ (~ normalizer_accepts(s, X_model) \/ X_model.cols # s.Uk_.rows)
  THEN [Ret("predict_log_proba", "ValueError", NoneM) EXCEPT !.at = "X_model"]
  ELSE LET Xm == IF X_model = NoneM THEN s.X_model_
                 ELSE dot(normalizer_transform(s, X_model), s.Uk_)
       IN
       IF Xm.rows # num_classes(s)
       THEN [Ret("predict_log_proba", "ValueError", NoneM) EXCEPT !.at = "num_classes"]
       ELSE IF ~ normalizer_accepts(s, X) \/ X.cols # s.Uk_.rows
       THEN [Ret("predict_log_proba", "ValueError", NoneM) EXCEPT !.at = "X"]
       ELSE Ret("predict_log_proba", NoErr,
                scores(dot(normalizer_transform(s, X), s.Uk_), Xm, s.Lambda_, s.Q_hat_))

predict_log_proba ==
  /\ fitpc = "idle"
  /\ \E X \in QueryX : \E X_model \in QueryModels(X) :
       ret' = predict_result(self, X, X_model)
  /\ UNCHANGED <<self, fitpc, loc>>
  /\ UNCHANGED <<defs, others>>

\* PLDA.__getstate__(): the error raised and the tuple returned
getstate_result(s) ==
  IF ~ is_fitted(s) THEN Ret("__getstate__", "RuntimeError", NoneM)
  ELSE [Ret("__getstate__", NoErr, NoneM) EXCEPT !.tuple = StateTuple(s)]

getstate ==
  /\ fitpc = "idle"
  /\ ret' = getstate_result(self)
  /\ UNCHANGED <<self, fitpc, loc>>
  /\ UNCHANGED <<defs, others>>

\* what __setstate__ does with the tuple `states`
setstate_result(s, states) == [s |-> FromTuple(states), err |-> NoErr]

\* PLDA.__setstate__(states): states is the tuple __getstate__ just
\* returned, or one pickled from another object
setstate ==
  /\ fitpc = "idle"
  /\ \E states \in (OtherBundles \cup {ret.tuple}) \ {NoBundle} :
       LET r == setstate_result(self, states) IN
       /\ self' = r.s
       /\ ret' = [Ret("__setstate__", r.err, NoneM) EXCEPT !.tuple = states]
  /\ UNCHANGED <<fitpc, loc>>
  /\ UNCHANGED <<defs, others>>

\* ---------------------------------------------------------------- scoring arithmetic
\* predict_log_proba on numeric matrices.  A matrix is a sequence of rows,
\* a row a sequence of integers; <<>> stands for None.
MaxSamples == 2

RECURSIVE SumTo(_, _)
SumTo(f, n) == IF n = 0 THEN 0 ELSE f[n] + SumTo(f, n - 1)

nrows(A) == Len(A)
ncols(A) == Len(A[1])

\* np.dot(A, B)
np_dot(A, B) ==
  [i \in 1..nrows(A) |->
     [j \in 1..ncols(B) |-> SumTo([k \in 1..ncols(A) |-> A[i][k] * B[k][j]], ncols(A))]]

\* A.T
np_T(A) == [j \in 1..ncols(A) |-> [i \in 1..nrows(A) |-> A[i][j]]]

\* A * B, element by element, for matrices of one shape
np_mul(A, B) == [i \in 1..nrows(A) |-> [j \in 1..ncols(A) |-> A[i][j] * B[i][j]]]

\* np.sum(A, axis=1, keepdims=True)
np_sum_axis1(A) == [i \in 1..nrows(A) |-> <<SumTo(A[i], ncols(A))>>]

\* np.diag(s)
np_diag(sv) == [i \in 1..Len(sv) |-> [j \in 1..Len(sv) |-> IF i = j THEN sv[i] ELSE 0]]

Broadcastable(A, B) ==
  /\ nrows(A) = nrows(B) \/ nrows(A) = 1 \/ nrows(B) = 1
  /\ ncols(A) = ncols(B) \/ ncols(A) = 1 \/ ncols(B) = 1

\* A + B with numpy broadcasting; <<>> when the shapes do not broadcast
np_add(A, B) ==
  IF A = <<>> \/ B = <<>> THEN <<>>
  ELSE IF ~ Broadcastable(A, B) THEN <<>>
  ELSE LET r == IF nrows(A) >= nrows(B) THEN nrows(A) ELSE nrows(B)
           c == IF ncols(A) >= ncols(B) THEN ncols(A) ELSE ncols(B)
           at(M, i, j) == M[IF nrows(M) = 1 THEN 1 ELSE i][IF ncols(M) = 1 THEN 1 ELSE j]
       IN [i \in 1..r |-> [j \in 1..c |-> at(A, i, j) + at(B, i, j)]]

\* VectorNormalizer.transform with centering and WCCN: (X - mean) . W
vn_transform(X, mean, W) ==
  np_dot([i \in 1..nrows(X) |-> [j \in 1..ncols(X) |-> X[i][j] - mean[j]]], W)

\* lines 367-373 without the transposition of score_h1
np_scores_no_T(X, X_model, Lambda, Q_hat) ==
  LET score_h1 == np_sum_axis1(np_mul(np_dot(X_model, Q_hat), X_model))
      score_h2 == np_sum_axis1(np_mul(np_dot(X, Q_hat), X))
      h == np_dot(X, np_T(np_dot(X_model, Lambda)))
      score_h1h2 == [i \in 1..nrows(h) |-> [j \in 1..ncols(h) |-> 2 * h[i][j]]]
  IN np_add(np_add(score_h1h2, score_h1), score_h2)

\* lines 367-373: score_h1h2 + score_h1.T + score_h2
np_scores(X, X_model, Lambda, Q_hat) ==
  LET score_h1 == np_sum_axis1(np_mul(np_dot(X_model, Q_hat), X_model))
      score_h2 == np_sum_axis1(np_mul(np_dot(X, Q_hat), X))
      h == np_dot(X, np_T(np_dot(X_model, Lambda)))
      score_h1h2 == [i \in 1..nrows(h) |-> [j \in 1..ncols(h) |-> 2 * h[i][j]]]
  IN np_add(np_add(score_h1h2, np_T(score_h1)), score_h2)

\* predict_log_proba (lines 349-374) on a fitted instance m
np_predict_log_proba(m, X, X_model) ==
  LET Xm == IF X_model = <<>> THEN m.X_model_
            ELSE np_dot(vn_transform(X_model, m.mean, m.W), m.Uk_)
  IN
  IF nrows(Xm) # m.num_classes THEN [err |-> "ValueError", val |-> <<>>]
  ELSE [err |-> NoErr,
        val |-> np_scores(np_dot(vn_transform(X, m.mean, m.W), m.Uk_), Xm,
                          m.Lambda_, m.Q_hat_)]

\* fitted instances with feat_dim = 3, num_phi = 2 and two classes
ScoreRows == {<<1, 0, 0>>, <<0, 1, 1>>, <<2, 1, 0>>}
ScoreModels ==
  [mean : {<<0, 0, 0>>, <<1, 0, 1>>},
   W : {<<<<1, 0, 0>>, <<0, 1, 0>>, <<0, 0, 1>>>>, <<<<1, 1, 0>>, <<0, 1, 0>>, <<0, 0, 2>>>>},
   Uk_ : {<<<<1, 0>>, <<0, 1>>, <<0, 0>>>>, <<<<1, 1>>, <<0, 1>>, <<1, 0>>>>},
   Lambda_ : {np_diag(<<2, 1>>), np_diag(<<3, 0>>)},
   Q_hat_ : {<<<<-1, 0>>, <<0, -2>>>>, <<<<-1, 1>>, <<2, -1>>>>},
   X_model_ : {<<<<1, 0>>, <<0, 1>>>>, <<<<2, 1>>, <<1, -1>>>>},
   num_classes : {2}]

\* the X handed to predict_log_proba: 1..MaxSamples rows
ScoreX == UNION {[1..n -> ScoreRows] : n \in 1..MaxSamples}

\* the X_model handed to it: None, or one or two rows
ScoreXModel == {<<>>} \cup UNION {[1..n -> {<<1, 0, 0>>, <<0, 1, 1>>}] : n \in 1..2}

NoScore == [m |-> <<>>, X |-> <<>>, X_model |-> <<>>, called |-> FALSE,
            err |-> NoErr, val |-> <<>>]

ScoreInit ==
  /\ self = PLDA__init__(1, 0, NoneL, 0)
  /\ fitpc = "idle"
  /\ loc = NoLoc
  /\ ret = NoRet
  /\ defs = <<>>
  /\ \E m \in ScoreModels, X \in ScoreX, X_model \in ScoreXModel :
       sc = [NoScore EXCEPT !.m = m, !.X = X, !.X_model = X_model]
  /\ mt = NoCall
  /\ tag = NoTag

\* one call of predict_log_proba on the numeric instance
score_predict ==
  /\ ~ sc.called
  /\ LET r == np_predict_log_proba(sc.m, sc.X, sc.X_model) IN
     sc' = [sc EXCEPT !.called = TRUE, !.err = r.err, !.val = r.val]
  /\ UNCHANGED <<plda_vars, mt, tag>>

ScoreNext == score_predict

SpecScore == ScoreInit /\ [][ScoreNext]_vars

\* ---------------------------------------------------------------- metrics: numbers
\* A float is a fraction [num, den] in lowest terms, den >= 0.  den = 0 is
\* what numpy's division by zero returns: nan (num = 0), inf (num = 1) or
\* -inf (num = -1).
RECURSIVE GCD(_, _)
GCD(a, b) == IF b = 0 THEN a ELSE GCD(b, a % b)

Abs(n) == IF n < 0 THEN 0 - n ELSE n
Sign(n) == IF n > 0 THEN 1 ELSE IF n < 0 THEN 0 - 1 ELSE 0

Frac(n, d) ==
  IF d = 0 THEN [num |-> Sign(n), den |-> 0]
  ELSE LET g == GCD(Abs(n), Abs(d)) IN
       [num |-> (Sign(d) * n) \div g, den |-> Abs(d) \div g]

NaN == Frac(0, 0)
IsNaN(a) == a.num = 0 /\ a.den = 0
Finite(a) == a.den > 0

RAdd(a, b) ==
  IF Finite(a) /\ Finite(b)
  THEN Frac(a.num * b.den + b.num * a.den, a.den * b.den)
  ELSE IF IsNaN(a) \/ IsNaN(b) \/ (~ Finite(a) /\ ~ Finite(b) /\ a.num # b.num)
  THEN NaN
  ELSE IF Finite(a) THEN b ELSE a
RMul(a, b) == Frac(a.num * b.num, a.den * b.den)
RDiv(a, b) == Frac(a.num * b.den, a.den * b.num)
RLeq(a, b) == ~ IsNaN(a) /\ ~ IsNaN(b) /\ a.num * b.den <= b.num * a.den
RLt(a, b) == ~ IsNaN(a) /\ ~ IsNaN(b) /\ a.num * b.den < b.num * a.den

\* ---------------------------------------------------------------- metrics: det_curve
\* number of trials of either class in the inputs, and the score values
MaxTrials == 2
ScoreVals == 0..2
NonePos == 0 - 1

\* np.argsort(a, kind='mergsort'): numpy reads the first letter of `kind`,
\* so this is the stable merge sort; position i holds the index of the i-th
\* smallest element, equal elements in index order
argsort_ties_reversed(a) ==
  [i \in 1..Len(a) |->
     CHOOSE j \in 1..Len(a) :
       Cardinality({k \in 1..Len(a) : a[k] < a[j] \/ (a[k] = a[j] /\ k > j)}) + 1 = i]
argsort(a) ==
  [i \in 1..Len(a) |->
     CHOOSE j \in 1..Len(a) :
       Cardinality({k \in 1..Len(a) : a[k] < a[j] \/ (a[k] = a[j] /\ k < j)}) + 1 = i]

\* np.cumsum
cumsum_none(a) == a
cumsum(a) == [i \in 1..Len(a) |-> SumTo(a, i)]

\* a[m] for a boolean mask m
RECURSIVE Masked(_, _)
Masked(a, m) ==
  IF a = <<>> THEN <<>>
  ELSE (IF Head(m) THEN <<Head(a)>> ELSE <<>>) \o Masked(Tail(a), Tail(m))

DetOut(err, Pmiss, Pfa, threshold, scores_) ==
  [err |-> err, Pmiss |-> Pmiss, Pfa |-> Pfa, threshold |-> threshold, scores_ |-> scores_]

\* the rates with the trials counted from 0 (np.arange(0, total))
det_rates_count_from_0(true_scores, false_scores) ==
  LET nb_true == Len(true_scores)
      nb_false == Len(false_scores)
      total == nb_true + nb_false
      scores0 == [i \in 1..total |->
                    IF i <= nb_false THEN <<false_scores[i], 0>>
                    ELSE <<true_scores[i - nb_false], 1>>]
      idx1 == argsort([i \in 1..total |-> scores0[i][2]])
      idx2 == argsort([i \in 1..total |-> scores0[i][1]])
      idx == [i \in 1..total |-> idx1[idx2[i]]]
      scores_ == [i \in 1..total |-> scores0[idx[i]]]
      sumtrue == cumsum([i \in 1..total |-> scores_[i][2]])
      sumfalse == [i \in 1..total |-> nb_false - ((i - 1) - sumtrue[i])]
      Pmiss == [i \in 1..total |-> Frac(sumtrue[i], nb_true)]
      Pfa == [i \in 1..total |-> Frac(sumfalse[i], nb_false)]
  IN IF total = 0
     THEN DetOut("IndexError", <<>>, <<>>, <<>>, <<>>)
     ELSE DetOut(NoErr, Pmiss, Pfa, scores_[1], scores_)

\* det_curve from "# ====== start ====== #" on: the rates of the sorted trials
det_rates(true_scores, false_scores) ==
  LET nb_true == Len(true_scores)
      nb_false == Len(false_scores)
      total == nb_true + nb_false
      \* rows <<score, label>>, the false trials first
      scores0 == [i \in 1..total |->
                    IF i <= nb_false THEN <<false_scores[i], 0>>
                    ELSE <<true_scores[i - nb_false], 1>>]
      idx1 == argsort([i \in 1..total |-> scores0[i][2]])
      idx2 == argsort([i \in 1..total |-> scores0[i][1]])
      idx == [i \in 1..total |-> idx1[idx2[i]]]
      \* scores_ is `scores` after scores = scores[idx]
      scores_ == [i \in 1..total |-> scores0[idx[i]]]
      sumtrue == cumsum([i \in 1..total |-> scores_[i][2]])
      sumfalse == [i \in 1..total |-> nb_false - (i - sumtrue[i])]
      Pmiss == [i \in 1..total |-> Frac(sumtrue[i], nb_true)]
      Pfa == [i \in 1..total |-> Frac(sumfalse[i], nb_false)]
  IN IF total = 0
     THEN DetOut("IndexError", <<>>, <<>>, <<>>, <<>>)
     ELSE DetOut(NoErr, Pmiss, Pfa, scores_[1], scores_)

\* det_curve(y_true, y_score, pos_label, true_scores, false_scores), NoneL
\* and NonePos for arguments left at None
det_curve(y_true, y_score, pos_label, true_scores, false_scores) ==
  IF true_scores # NoneL /\ false_scores # NoneL
  THEN det_rates(true_scores, false_scores)
  ELSE IF y_true = NoneL \/ y_score = NoneL
  THEN DetOut("ValueError", <<>>, <<>>, <<>>, <<>>)
  ELSE IF Len(y_score) # Len(y_true)
  THEN DetOut("IndexError", <<>>, <<>>, <<>>, <<>>)
  ELSE LET pos == IF pos_label = NonePos THEN 1 ELSE pos_label
           true_idx == [i \in 1..Len(y_true) |-> y_true[i] = pos]
           false_idx == [i \in 1..Len(y_true) |-> y_true[i] # pos]
           ts == IF true_scores = NoneL THEN Masked(y_score, true_idx) ELSE true_scores
           fs == IF false_scores = NoneL THEN Masked(y_score, false_idx) ELSE false_scores
       IN IF Len(fs) + Len(ts) # Len(y_true)
          THEN DetOut("RuntimeError", <<>>, <<>>, <<>>, <<>>)
          ELSE det_rates(ts, fs)

\* the arguments of a det_curve call
Arrays(vals, n) == UNION {[1..k -> vals] : k \in 0..n}
DetArgs(y_true, y_score, pos_label, true_scores, false_scores) ==
  [y_true |-> y_true, y_score |-> y_score, pos_label |-> pos_label,
   true_scores |-> true_scores, false_scores |-> false_scores]

det_curve_call ==
  /\ mt.fn = "det_curve" /\ ~ mt.called
  /\ LET a == mt.args IN
     LET r == det_curve(a.y_true, a.y_score, a.pos_label, a.true_scores, a.false_scores) IN
     mt' = [mt EXCEPT !.called = TRUE, !.err = r.err, !.out = r]
  /\ UNCHANGED <<plda_vars, sc, tag>>

\* ---------------------------------------------------------------- metrics: compute_minDCF
\* number of points of a trade-off curve, and the rates at a point
MaxPoints == 3
Rates == {Frac(0, 1), Frac(1, 2), Frac(1, 1)}

\* np.argmin: scan from the left, a later element replaces the minimum only
\* when it is strictly smaller
RECURSIVE argmin_last_scan(_, _, _)
argmin_last_scan(v, i, best) ==
  IF i > Len(v) THEN best
  ELSE argmin_last_scan(v, i + 1, IF RLeq(v[i], v[best]) THEN i ELSE best)
RECURSIVE argmin_scan(_, _, _)
argmin_scan(v, i, best) ==
  IF i > Len(v) THEN best
  ELSE argmin_scan(v, i + 1, IF RLt(v[i], v[best]) THEN i ELSE best)

argmin_last(v) == argmin_last_scan(v, 2, 1)
argmin(v) == argmin_scan(v, 2, 1)

DCFOut(err, min_val, Pmiss, Pfa, DCF_vector) ==
  [err |-> err, min_val |-> min_val, Pmiss |-> Pmiss, Pfa |-> Pfa,
   DCF_vector |-> DCF_vector]

\* compute_minDCF(fpr, fnr, Cmiss, Cfa, Ptrue): Cmiss, Cfa integers, Ptrue a
\* fraction
compute_minDCF(fpr, fnr, Cmiss, Cfa, Ptrue) ==
  LET Pmiss == fpr
      Pfa == fnr
      Pfalse == RAdd(Frac(1, 1), RMul(Frac(0 - 1, 1), Ptrue))
      DCF_vector ==
        [i \in 1..Len(Pmiss) |->
           RAdd(RMul(RMul(Frac(Cmiss, 1), Pmiss[i]), Ptrue),
                RMul(RMul(Frac(Cfa, 1), Pfa[i]), Pfalse))]
  IN IF Len(Pmiss) # Len(Pfa)
     THEN DCFOut("AssertionError", NaN, NaN, NaN, <<>>)
     ELSE IF Len(DCF_vector) = 0
     THEN DCFOut("ValueError", NaN, NaN, NaN, <<>>)
     ELSE LET min_idx == argmin(DCF_vector) IN
          DCFOut(NoErr, DCF_vector[min_idx], Pmiss[min_idx], Pfa[min_idx], DCF_vector)

\* the arguments of a compute_minDCF call, and the costs <<Cmiss, Cfa, Ptrue>>
\* of the modelled calls
DCFCosts == {<<1, 1, Frac(1, 2)>>, <<2, 1, Frac(1, 2)>>, <<1, 2, Frac(1, 10)>>}
DCFArgs(fpr, fnr, c) ==
  [fpr |-> fpr, fnr |-> fnr, Cmiss |-> c[1], Cfa |-> c[2], Ptrue |-> c[3]]

compute_minDCF_call ==
  /\ mt.fn = "compute_minDCF" /\ ~ mt.called
  /\ LET a == mt.args IN
     LET r == compute_minDCF(a.fpr, a.fnr, a.Cmiss, a.Cfa, a.Ptrue) IN
     mt' = [mt EXCEPT !.called = TRUE, !.err = r.err, !.out = r]
  /\ UNCHANGED <<plda_vars, sc, tag>>

\* ---------------------------------------------------------------- metrics: Cavg
\* The array path of Cavg.  Log-likelihood ratios and the threshold are
\* integers in units of ln 2, so that np.log is exact on the ratios used:
\* Log2 is defined on the powers of two from 1/4 to 4.
MaxUtts == 2
LlrVals == {0 - 1, 0, 1}

Log2(q) == CHOOSE n \in (0 - 2)..2 :
             q = (IF n >= 0 THEN Frac(2 ^ n, 1) ELSE Frac(1, 2 ^ (0 - n)))

\* the logit of a probability: log(p / (1 - p))
Logit(p) == Log2(RDiv(p, RAdd(Frac(1, 1), RMul(Frac(0 - 1, 1), p))))

\* sum and mean of a sequence of fractions, from the left
RECURSIVE RSum(_)
RSum(q) == IF q = <<>> THEN Frac(0, 1) ELSE RAdd(RSum(SubSeq(q, 1, Len(q) - 1)), q[Len(q)])
RMean(q) == RDiv(RSum(q), Frac(Len(q), 1))

\* cluster_idx = None
NoneC == <<NoneL>>

CavgOut(err, cluster_cost, total_cost, thresh, N, errs) ==
  [err |-> err, cluster_cost |-> cluster_cost, total_cost |-> total_cost,
   thresh |-> thresh, N |-> N, errs |-> errs]

\* the sample count of a class, floored to 1
Cavg_N_unfloored(y_true, lang_i) == Cardinality({s \in 1..Len(y_true) : y_true[s] = lang_i})
Cavg_N(y_true, lang_i) ==
  LET N == Cardinality({s \in 1..Len(y_true) : y_true[s] = lang_i}) IN
  IF N > 1 THEN N ELSE 1

\* err of the pair (lang_i, lang_j) in the inner loop
Cavg_err_swapped(y_llr, y_true, thresh, lang_i, lang_j) ==
  IF lang_i = lang_j
  THEN Frac(Cardinality({s \in 1..Len(y_true) : y_true[s] = lang_i
                                           /\ y_llr[s][lang_i + 1] >= thresh}),
            Cavg_N(y_true, lang_i))
  ELSE Frac(Cardinality({s \in 1..Len(y_true) : y_true[s] = lang_i
                                           /\ y_llr[s][lang_j + 1] < thresh}),
            Cavg_N(y_true, lang_i))
Cavg_err(y_llr, y_true, thresh, lang_i, lang_j) ==
  IF lang_i = lang_j
  THEN Frac(Cardinality({s \in 1..Len(y_true) : y_true[s] = lang_i
                                           /\ y_llr[s][lang_i + 1] < thresh}),
            Cavg_N(y_true, lang_i))
  ELSE Frac(Cardinality({s \in 1..Len(y_true) : y_true[s] = lang_i
                                           /\ y_llr[s][lang_j + 1] >= thresh}),
            Cavg_N(y_true, lang_i))

\* the two nested loops over one cluster: the pairs (lang_i, lang_j) are
\* visited in row-major order, p = 0 .. L*L-1; acc = [fr, fa]
RECURSIVE Cavg_loops(_, _, _, _, _, _)
Cavg_loops(y_llr, y_true, thresh, cluster, p, acc) ==
  LET L == Len(cluster) IN
  IF p = L * L THEN acc
  ELSE LET lang_i == cluster[(p \div L) + 1]
           lang_j == cluster[(p % L) + 1]
           err == Cavg_err(y_llr, y_true, thresh, lang_i, lang_j)
       IN Cavg_loops(y_llr, y_true, thresh, cluster, p + 1,
                     IF lang_i = lang_j
                     THEN [acc EXCEPT !.fr = RAdd(@, err)]
                     ELSE [acc EXCEPT !.fa = RAdd(@, err)])

\* the cluster cost with the divisor L - 1 floored to 1, like the sample count
Cavg_cluster_cost_floored(y_llr, nb_classes, y_true, thresh, cluster, Ptar, Cfa, Cmiss) ==
  LET L == Len(cluster)
      acc == Cavg_loops(y_llr, y_true, thresh, cluster, 0,
                        [fr |-> Frac(0, 1), fa |-> Frac(0, 1)])
      Pnon == RAdd(Frac(1, 1), RMul(Frac(0 - 1, 1), Ptar))
  IN IF \E i \in 1..L : cluster[i] >= nb_classes
     THEN [err |-> "IndexError", val |-> NaN]
     ELSE IF L <= 0
     THEN [err |-> "ZeroDivisionError", val |-> NaN]
     ELSE [err |-> NoErr,
           val |-> RDiv(RMul(Frac(100, 1),
                             RAdd(RMul(RMul(Frac(Cmiss, 1), Ptar), acc.fr),
                                  RDiv(RMul(RMul(Frac(Cfa, 1), Pnon), acc.fa),
                                       Frac(IF L - 1 >= 1 THEN L - 1 ELSE 1, 1)))),
                        Frac(L, 1))]

\* cluster_cost[k].  Indexing a column the array does not have raises
\* IndexError inside the loops.  Ptar, Cfa and Cmiss are Python numbers, so
\* with L = 1 (fa is still the integer 0) the division by L - 1 raises
\* ZeroDivisionError, and so does the division by L = 0.
Cavg_cluster_cost_sum(y_llr, nb_classes, y_true, thresh, cluster, Ptar, Cfa, Cmiss) ==
  LET L == Len(cluster)
      acc == Cavg_loops(y_llr, y_true, thresh, cluster, 0,
                        [fr |-> Frac(0, 1), fa |-> Frac(0, 1)])
      Pnon == RAdd(Frac(1, 1), RMul(Frac(0 - 1, 1), Ptar))
  IN IF \E i \in 1..L : cluster[i] >= nb_classes
     THEN [err |-> "IndexError", val |-> NaN]
     ELSE IF L <= 1
     THEN [err |-> "ZeroDivisionError", val |-> NaN]
     ELSE [err |-> NoErr,
           val |-> RMul(Frac(100, 1),
                        RAdd(RMul(RMul(Frac(Cmiss, 1), Ptar), acc.fr),
                             RMul(RMul(Frac(Cfa, 1), Pnon), acc.fa)))]
Cavg_cluster_cost(y_llr, nb_classes, y_true, thresh, cluster, Ptar, Cfa, Cmiss) ==
  LET L == Len(cluster)
      acc == Cavg_loops(y_llr, y_true, thresh, cluster, 0,
                        [fr |-> Frac(0, 1), fa |-> Frac(0, 1)])
      Pnon == RAdd(Frac(1, 1), RMul(Frac(0 - 1, 1), Ptar))
  IN IF \E i \in 1..L : cluster[i] >= nb_classes
     THEN [err |-> "IndexError", val |-> NaN]
     ELSE IF L <= 1
     THEN [err |-> "ZeroDivisionError", val |-> NaN]
     ELSE [err |-> NoErr,
           val |-> RDiv(RMul(Frac(100, 1),
                             RAdd(RMul(RMul(Frac(Cmiss, 1), Ptar), acc.fr),
                                  RDiv(RMul(RMul(Frac(Cfa, 1), Pnon), acc.fa),
                                       Frac(L - 1, 1)))),
                        Frac(L, 1))]

\* Cavg(y_llr, y_true, cluster_idx, Ptar, Cfa, Cmiss, probability_input) for
\* arrays: y_llr a sequence of rows with nb_classes columns, cluster_idx
\* NoneC for None; the first cluster that raises ends the call
Cavg(y_llr0, nb_classes, y_true, cluster_idx0, Ptar, Cfa, Cmiss, probability_input) ==
  LET y_llr == IF probability_input
               THEN [s \in 1..Len(y_llr0) |->
                       [c \in 1..nb_classes |-> Logit(y_llr0[s][c])]]
               ELSE y_llr0
      cluster_idx == IF cluster_idx0 = NoneC
                     THEN << [c \in 1..nb_classes |-> c - 1] >>
                     ELSE cluster_idx0
      thresh == Log2(Frac(Cfa, Cmiss))
                  - Log2(RDiv(Ptar, RAdd(Frac(1, 1), RMul(Frac(0 - 1, 1), Ptar))))
      costs == [k \in 1..Len(cluster_idx) |->
                  Cavg_cluster_cost(y_llr, nb_classes, y_true, thresh, cluster_idx[k],
                                    Ptar, Cfa, Cmiss)]
      failed == {k \in 1..Len(cluster_idx) : costs[k].err # NoErr}
      N == [k \in 1..Len(cluster_idx) |->
              [i \in 1..Len(cluster_idx[k]) |-> Cavg_N(y_true, cluster_idx[k][i])]]
      errs == [k \in 1..Len(cluster_idx) |->
                 [i \in 1..Len(cluster_idx[k]) |->
                    [j \in 1..Len(cluster_idx[k]) |->
                       Cavg_err(y_llr, y_true, thresh,
                                cluster_idx[k][i], cluster_idx[k][j])]]]
  IN IF failed # {}
     THEN CavgOut(costs[CHOOSE k \in failed : \A h \in failed : k <= h].err,
                  <<>>, NaN, thresh, <<>>, <<>>)
     ELSE CavgOut(NoErr, [k \in 1..Len(cluster_idx) |-> costs[k].val],
                  RMean([k \in 1..Len(cluster_idx) |-> costs[k].val]),
                  thresh, N, errs)

\* the arguments of the modelled Cavg calls: y_llr with one to three
\* columns and up to MaxUtts rows, every labelling of the rows, and for each
\* number of columns some cluster lists and costs <<cluster_idx, Ptar, Cfa, Cmiss>>
LlrRows(K) ==
  IF K = 3
  THEN {<<1, 0 - 1, 0 - 1>>, <<0 - 1, 1, 0>>, <<0, 0 - 1, 1>>, <<0 - 1, 0 - 1, 0 - 1>>}
  ELSE IF K = 2
  THEN {<<1, 0 - 1>>, <<0 - 1, 1>>, <<0, 0>>, <<1, 1>>, <<0 - 1, 0 - 1>>, <<0, 0 - 1>>}
  ELSE [1..K -> LlrVals]
CavgSettings(K) ==
  IF K = 1
  THEN {<<NoneC, Frac(1, 2), 1, 1>>, << << <<0, 1>> >>, Frac(1, 2), 1, 1>>}
  ELSE IF K = 2
  THEN {<<NoneC, Frac(1, 2), 1, 1>>,
        << << <<0, 1>> >>, Frac(2, 3), 1, 1>>,
        << << <<1, 0>> >>, Frac(1, 3), 1, 2>>}
  ELSE {<<NoneC, Frac(1, 2), 1, 1>>,
        << << <<0, 1>>, <<1, 2>> >>, Frac(1, 2), 1, 1>>,
        << << <<0, 2>>, <<0, 1, 2>> >>, Frac(2, 3), 1, 1>>,
        << << <<0, 1>>, <<2>> >>, Frac(1, 3), 1, 2>>}
\* rows of probabilities, for probability_input
ProbRows == [1..2 -> {Frac(1, 3), Frac(2, 3)}] \cup {<<Frac(1, 2), Frac(1, 2)>>}
CavgArgs(y_llr, nb_classes, y_true, c, probability_input) ==
  [y_llr |-> y_llr, nb_classes |-> nb_classes, y_true |-> y_true, cluster_idx |-> c[1],
   Ptar |-> c[2], Cfa |-> c[3], Cmiss |-> c[4], probability_input |-> probability_input]

Cavg_call ==
  /\ mt.fn = "Cavg" /\ ~ mt.called
  /\ LET a == mt.args IN
     LET r == Cavg(a.y_llr, a.nb_classes, a.y_true, a.cluster_idx, a.Ptar, a.Cfa,
                   a.Cmiss, a.probability_input) IN
     mt' = [mt EXCEPT !.called = TRUE, !.err = r.err, !.out = r]
  /\ UNCHANGED <<plda_vars, sc, tag>>

\* ---------------------------------------------------------------- metrics: LevenshteinDistance, LER
MaxSeqLen == 4
Min2(a, b) == IF a < b THEN a ELSE b

\* the inner loop over s1 for one element char2 of s2: newDistances grows
\* by one entry per element of s1
RECURSIVE Lev_row_no_insert(_, _, _, _)
Lev_row_no_insert(s1, char2, distances, newDistances) ==
  LET index1 == Len(newDistances) IN
  IF index1 > Len(s1) THEN newDistances
  ELSE Lev_row_no_insert(s1, char2, distances,
         Append(newDistances,
                IF s1[index1] = char2 THEN distances[index1]
                ELSE 1 + Min2(distances[index1], distances[index1 + 1])))
RECURSIVE Lev_row(_, _, _, _)
Lev_row(s1, char2, distances, newDistances) ==
  LET index1 == Len(newDistances) IN
  IF index1 > Len(s1) THEN newDistances
  ELSE Lev_row(s1, char2, distances,
         Append(newDistances,
                IF s1[index1] = char2 THEN distances[index1]
                ELSE 1 + Min2(distances[index1],
                              Min2(distances[index1 + 1],
                                   newDistances[Len(newDistances)]))))

\* the outer loop over s2, from element index2 on (1-based)
RECURSIVE Lev_rows(_, _, _, _)
Lev_rows(s1, s2, index2, distances) ==
  IF index2 > Len(s2) THEN distances
  ELSE Lev_rows(s1, s2, index2 + 1, Lev_row(s1, s2[index2], distances, <<index2>>))

LevenshteinDistance(a, b) ==
  LET s1 == IF Len(a) > Len(b) THEN b ELSE a
      s2 == IF Len(a) > Len(b) THEN a ELSE b
      distances == Lev_rows(s1, s2, 1, [i \in 1..(Len(s1) + 1) |-> i - 1])
  IN distances[Len(distances)]

\* the arguments of the modelled LevenshteinDistance calls
LevSeqs == Arrays({"a", "b"}, MaxSeqLen)
LevArgs ==
  {[s1 |-> a, s2 |-> b] : a \in LevSeqs, b \in LevSeqs}
  \cup {[s1 |-> <<"k", "i", "t", "t", "e", "n">>,
         s2 |-> <<"s", "i", "t", "t", "i", "n", "g">>],
        [s1 |-> <<"s", "i", "t", "t", "i", "n", "g">>,
         s2 |-> <<"k", "i", "t", "t", "e", "n">>]}

LevenshteinDistance_call ==
  /\ mt.fn = "LevenshteinDistance" /\ ~ mt.called
  /\ mt' = [mt EXCEPT !.called = TRUE,
                      !.out = LevenshteinDistance(mt.args.s1, mt.args.s2)]
  /\ UNCHANGED <<plda_vars, sc, tag>>

LEROut(err, results, mean) == [err |-> err, results |-> results, mean |-> mean]

\* LER(y_true, y_pred, return_mean).  true_nested / pred_nested say that the
\* first element of the argument has a length and is not a string, i.e.
\* that the argument is a list of sequences and is not wrapped into one.
LER_reference_swapped(y_true0, true_nested, y_pred0, pred_nested, return_mean) ==
  IF y_true0 = <<>> \/ y_pred0 = <<>>
  THEN LEROut("IndexError", <<>>, NaN)
  ELSE LET y_true == IF true_nested THEN y_true0 ELSE <<y_true0>>
           y_pred == IF pred_nested THEN y_pred0 ELSE <<y_pred0>>
           n == Min2(Len(y_true), Len(y_pred))
       IN IF \E i \in 1..n : Len(y_pred[i]) = 0
          THEN LEROut("ZeroDivisionError", <<>>, NaN)
          ELSE LET results == [i \in 1..n |->
                                 Frac(LevenshteinDistance(y_true[i], y_pred[i]),
                                      Len(y_pred[i]))]
               IN LEROut(NoErr, IF return_mean THEN <<>> ELSE results,
                         IF return_mean THEN RMean(results) ELSE NaN)
LER(y_true0, true_nested, y_pred0, pred_nested, return_mean) ==
  IF y_true0 = <<>> \/ y_pred0 = <<>>
  THEN LEROut("IndexError", <<>>, NaN)
  ELSE LET y_true == IF true_nested THEN y_true0 ELSE <<y_true0>>
           y_pred == IF pred_nested THEN y_pred0 ELSE <<y_pred0>>
           n == Min2(Len(y_true), Len(y_pred))
       IN IF \E i \in 1..n : Len(y_true[i]) = 0
          THEN LEROut("ZeroDivisionError", <<>>, NaN)
          ELSE LET results == [i \in 1..n |->
                                 Frac(LevenshteinDistance(y_true[i], y_pred[i]),
                                      Len(y_true[i]))]
               IN LEROut(NoErr, IF return_mean THEN <<>> ELSE results,
                         IF return_mean THEN RMean(results) ELSE NaN)

\* the arguments of the modelled LER calls: lists of one or two sequences,
\* single sequences given flat, and the empty list
LerSeqs == {<<>>, <<"a">>, <<"a", "b">>, <<"b", "a">>, <<"a", "b", "c">>,
            <<"a", "x", "c">>}
LerLists(nested) ==
  IF nested THEN UNION {[1..n -> LerSeqs] : n \in 1..2} ELSE LerSeqs
LERArgs(true_nested, pred_nested) ==
  {[y_true |-> t, true_nested |-> true_nested, y_pred |-> p,
    pred_nested |-> pred_nested, return_mean |-> m] :
     t \in LerLists(true_nested), p \in LerLists(pred_nested), m \in BOOLEAN}

LER_call ==
  /\ mt.fn = "LER" /\ ~ mt.called
  /\ LET a == mt.args IN
     LET r == LER(a.y_true, a.true_nested, a.y_pred, a.pred_nested, a.return_mean) IN
     mt' = [mt EXCEPT !.called = TRUE, !.err = r.err, !.out = r]
  /\ UNCHANGED <<plda_vars, sc, tag>>

\* ---------------------------------------------------------------- roles: add_role
\* A role instance is named by its class (VariableRole.__eq__ compares the
\* classes).  RoleParent is the base class of each class of roles.py.
RoleParent ==
  [c \in {"VariableRole"} |-> "object"] @@
  [c \in {"TrainingRole", "DeployingRole", "VariationalRole", "CostRole",
          "ParameterRole", "AuxiliaryRole", "DropoutRole", "OptimizerStateRole",
          "LearningRateRole"} |-> "VariableRole"] @@
  [c \in {"VariationalMean", "VariationalLogsigma"} |-> "VariationalRole"] @@
  [c \in {"ActivationParameterRole", "WeightRole", "BiasRole", "InitialStateRole",
          "BatchNormPopulationStatisticsRole", "BatchNormScaleParameterRole"}
     |-> "ParameterRole"] @@
  [c \in {"FilterRole", "EmbeddingWeights"} |-> "WeightRole"] @@
  [c \in {"BatchNormPopulationMeanRole", "BatchNormPopulationInvStdRole"}
     |-> "BatchNormPopulationStatisticsRole"] @@
  [c \in {"BatchNormShiftParameterRole"} |-> "BiasRole"]

\* isinstance(r, cls) for a role r
RECURSIVE isinstance(_, _)
isinstance(r, cls) ==
  \/ r = cls
  \/ (r # "object" /\ isinstance(RoleParent[r], cls))

\* add_role excluding the mode being added instead of the opposite one
add_role_excludes_own_mode(roles0, role) ==
  LET roles == IF role \in {"TrainingRole", "DeployingRole"}
               THEN LET exclude_role == IF role = "DeployingRole" THEN "DeployingRole"
                                        ELSE "TrainingRole"
                    IN SelectSeq(roles0, LAMBDA r : ~ isinstance(r, exclude_role))
               ELSE SelectSeq(roles0, LAMBDA old_role : ~ isinstance(role, old_role))
  IN IF \E i \in 1..Len(roles) : isinstance(roles[i], role)
     THEN roles
     ELSE roles \o <<role>>

\* the role list add_role stores, from the list it read
add_role_keeps_ancestors(roles0, role) ==
  LET roles == IF role \in {"TrainingRole", "DeployingRole"}
               THEN LET exclude_role == IF role = "DeployingRole" THEN "TrainingRole"
                                        ELSE "DeployingRole"
                    IN SelectSeq(roles0, LAMBDA r : ~ isinstance(r, exclude_role))
               ELSE roles0
  IN IF \E i \in 1..Len(roles) : isinstance(roles[i], role)
     THEN roles
     ELSE roles \o <<role>>
add_role(roles0, role) ==
  LET roles == IF role \in {"TrainingRole", "DeployingRole"}
               THEN LET exclude_role == IF role = "DeployingRole" THEN "TrainingRole"
                                        ELSE "DeployingRole"
                    IN SelectSeq(roles0, LAMBDA r : ~ isinstance(r, exclude_role))
               ELSE SelectSeq(roles0, LAMBDA old_role : ~ isinstance(role, old_role))
  IN IF \E i \in 1..Len(roles) : isinstance(roles[i], role)
     THEN roles
     ELSE roles \o <<role>>

\* the roles of the modelled add_role calls
RoleArgs == {"VariableRole", "TrainingRole", "DeployingRole", "CostRole",
             "ParameterRole", "WeightRole", "FilterRole", "BiasRole"}

\* add_role(var, role): var.tag is created if missing, the role list read
\* (empty if missing) and the new list stored; `added` is the role argument
add_role_call ==
  /\ \E role \in RoleArgs :
       tag' = [roles_set |-> TRUE, roles |-> add_role(tag.roles, role), added |-> role]
  /\ UNCHANGED <<plda_vars, sc, mt>>

\* ---------------------------------------------------------------- expectation step on numbers
\* expectation_plda (lines 254-286) for num_phi = 1 and feat_dim = 2, on
\* exact fractions: Phi_ is a column of two integers, Sigma_ is diagonal
\* (given by its diagonal), so that solve and inv are divisions.
MaxClasses == 3

\* odin.utils.unique(x, keep_order=True): the distinct values of x in the
\* order of their first occurrence
RECURSIVE unique_keep_order(_)
unique_keep_order(x) ==
  IF x = <<>> THEN <<>>
  ELSE LET r == unique_keep_order(SubSeq(x, 1, Len(x) - 1)) IN
       IF \E i \in 1..Len(r) : r[i] = x[Len(x)] THEN r ELSE Append(r, x[Len(x)])

\* np.dot of two vectors of fractions
RDot(u, v) == RSum([i \in 1..Len(u) |-> RMul(u[i], v[i])])

\* solve(Sigma_.T, Phi_).T for a diagonal Sigma_
PhiT_invS_of(Sigma_diag, Phi) ==
  [i \in 1..Len(Phi) |-> Frac(Phi[i], Sigma_diag[i])]

ExpOut(err, Ey, Eyy, uniqFreqs, invTerms) ==
  [err |-> err, Ey |-> Ey, Eyy |-> Eyy, uniqFreqs |-> uniqFreqs, invTerms |-> invTerms]

\* the index into invTerms taken to be the index of the class
exp_bucket_by_class(uniqFreqs, num_samples, clz) ==
  IF clz <= Len(uniqFreqs) THEN clz ELSE Len(uniqFreqs)

\* line 280, np.flatnonzero(uniqFreqs == num_samples)[0]: the bucket of a
\* class with num_samples samples
exp_bucket(uniqFreqs, num_samples, clz) ==
  CHOOSE i \in 1..Len(uniqFreqs) :
    uniqFreqs[i] = num_samples /\ \A j \in 1..(i - 1) : uniqFreqs[j] # num_samples

\* expectation_plda(F, cls_counts) on an instance with the given Sigma_, Phi_
np_expectation_plda(Sigma_diag, Phi, F, cls_counts) ==
  LET num_classes_ == Len(F)
      uniqFreqs == unique_keep_order(cls_counts)
      n_uniq == Len(uniqFreqs)
      PhiT_invS == PhiT_invS_of(Sigma_diag, Phi)
      PhiT_invS_Phi == RDot(PhiT_invS, [i \in 1..Len(Phi) |-> Frac(Phi[i], 1)])
      I == Frac(1, 1)
      nPhiT_invS_Phi(ix) == RMul(Frac(uniqFreqs[ix], 1), PhiT_invS_Phi)
      invTerms == [ix \in 1..n_uniq |-> RDiv(I, RAdd(I, nPhiT_invS_Phi(ix)))]
      Cyy(clz) == invTerms[exp_bucket(uniqFreqs, cls_counts[clz], clz)]
      Ey_clz == [clz \in 1..num_classes_ |->
                   RMul(Cyy(clz),
                        RDot(PhiT_invS, [i \in 1..Len(Phi) |-> Frac(F[clz][i], 1)]))]
      Eyy1 == RSum([clz \in 1..num_classes_ |->
                      RMul(Frac(cls_counts[clz], 1), Cyy(clz))])
      Eyy2 == RSum([clz \in 1..num_classes_ |->
                      RMul(RMul(Ey_clz[clz], Frac(cls_counts[clz], 1)), Ey_clz[clz])])
  IN
  IF \E i \in 1..Len(Sigma_diag) : Sigma_diag[i] = 0
  THEN ExpOut("LinAlgError", <<>>, NaN, uniqFreqs, <<>>)
  ELSE IF \E ix \in 1..n_uniq : RAdd(I, nPhiT_invS_Phi(ix)) = Frac(0, 1)
  THEN ExpOut("LinAlgError", <<>>, NaN, uniqFreqs, <<>>)
  ELSE IF Len(cls_counts) < num_classes_
  THEN ExpOut("IndexError", <<>>, NaN, uniqFreqs, invTerms)
  ELSE IF Len(cls_counts) > num_classes_
  THEN ExpOut("ValueError", <<>>, NaN, uniqFreqs, invTerms)
  ELSE ExpOut(NoErr, Ey_clz, RAdd(Eyy1, Eyy2), uniqFreqs, invTerms)

expectation_call ==
  /\ mt.fn = "expectation_plda" /\ ~ mt.called
  /\ LET a == mt.args IN
     mt' = [mt EXCEPT !.called = TRUE,
                      !.out = np_expectation_plda(a.Sigma_diag, a.Phi, a.F, a.cls_counts),
                      !.err = np_expectation_plda(a.Sigma_diag, a.Phi, a.F, a.cls_counts).err]
  /\ UNCHANGED <<plda_vars, sc, tag>>

\* ---------------------------------------------------------------- per-class sums on numbers
\* fit() from its assertion to the first expectation step (lines 214-233)
\* on a fresh instance, for integer samples of feat_dim = 2: X is the
\* matrix the normalizer returned, a sequence of rows.
MaxLabelled == 3

RECURSIVE SortedSeq(_)
SortedSeq(A) ==
  IF A = {} THEN <<>>
  ELSE LET m == CHOOSE a \in A : \A b \in A : a <= b IN <<m>> \o SortedSeq(A \ {m})

\* np.unique(y)
np_unique(y) == SortedSeq({y[i] : i \in 1..Len(y)})

\* np.bincount(y), y >= 0
np_bincount(y) ==
  LET mx == CHOOSE a \in {y[i] : i \in 1..Len(y)} : \A i \in 1..Len(y) : y[i] <= a IN
  [c \in 1..(mx + 1) |-> Cardinality({i \in 1..Len(y) : y[i] = c - 1})]

\* the row of F taken to be the rank of the class among the classes
F_row_by_rank(classes, clz) ==
  Cardinality({i \in 1..Len(classes) : classes[i] < clz})

\* line 226: the row of F assigned for class clz (0-based)
F_row(classes, clz) == clz

\* lines 223-226: F after the loop over np.unique(y)
F_of(X, y, classes, K, feat_dim) ==
  [r \in 1..K |->
     IF \E c \in 1..Len(classes) : F_row(classes, classes[c]) = r - 1
     THEN LET c == CHOOSE c \in 1..Len(classes) :
                     /\ F_row(classes, classes[c]) = r - 1
                     /\ \A c2 \in (c + 1)..Len(classes) :
                          F_row(classes, classes[c2]) # r - 1
              \* X[y == clz, :]
              A == Masked(X, [i \in 1..Len(y) |-> y[i] = classes[c]])
          IN \* .sum(axis=0)
             [j \in 1..feat_dim |-> SumTo([i \in 1..Len(A) |-> A[i][j]], Len(A))]
     ELSE [j \in 1..feat_dim |-> 0]]

FitOut(err, at, F, y_counts, K) ==
  [err |-> err, at |-> at, F |-> F, y_counts |-> y_counts, K |-> K]

\* fit(X, y) on PLDA(num_phi, labels=labels0) up to the call of
\* expectation_plda(F, y_counts)
np_fit_begin(num_phi, labels0, X, y) ==
  LET feat_dim == 2
      classes == np_unique(y)
      labels == IF labels0 = NoneL THEN classes ELSE labels0
      K == Len(labels)
  IN
  IF Len(X) # Len(y) THEN FitOut("AssertionError", "assert", <<>>, <<>>, 0)
  ELSE IF \E i \in 1..Len(y) : y[i] < 0
  THEN FitOut("ValueError", "bincount", <<>>, <<>>, 0)
  ELSE IF feat_dim <= num_phi
  THEN FitOut("RuntimeError", "initialize", <<>>, np_bincount(y), 0)
  ELSE IF K # Len(classes)
  THEN FitOut("ValueError", "initialize", <<>>, np_bincount(y), K)
  ELSE IF \E c \in 1..Len(classes) : F_row(classes, classes[c]) >= K
  THEN FitOut("IndexError", "F", <<>>, np_bincount(y), K)
  ELSE FitOut(NoErr, "E", F_of(X, y, classes, K, feat_dim), np_bincount(y), K)

fit_begin_call ==
  /\ mt.fn = "fit" /\ ~ mt.called
  /\ LET a == mt.args
         r == np_fit_begin(a.num_phi, a.labels0, a.X, a.y)
     IN mt' = [mt EXCEPT !.called = TRUE, !.out = r, !.err = r.err]
  /\ UNCHANGED <<plda_vars, sc, tag>>

\* ---------------------------------------------------------------- specifications of metrics and roles
MetricsIdle ==
  /\ self = PLDA__init__(1, 0, NoneL, 0)
  /\ fitpc = "idle"
  /\ loc = NoLoc
  /\ ret = NoRet
  /\ defs = <<>>
  /\ sc = NoScore
  /\ tag = NoTag

Call(fn, args) == [NoCall EXCEPT !.fn = fn, !.args = args]

\* det_curve is called with true and false scores (or without the true
\* scores), or with labels and scores and possibly true scores;
\* compute_minDCF with curves of equal length, or of lengths 1 and 0
DetInit ==
  /\ MetricsIdle
  /\ \/ \E t \in Arrays(ScoreVals, MaxTrials) \cup {NoneL},
           f \in Arrays(ScoreVals, MaxTrials) :
          mt = Call("det_curve", DetArgs(NoneL, NoneL, NonePos, t, f))
     \/ \E y \in Arrays(0..1, MaxTrials), s \in Arrays(1..2, MaxTrials),
           p \in {NonePos, 0}, t \in {NoneL, <<2>>} :
          mt = Call("det_curve", DetArgs(y, s, p, t, NoneL))
     \/ \E n \in 0..MaxPoints, c \in DCFCosts :
          \E a \in [1..n -> Rates], b \in [1..n -> Rates] :
            mt = Call("compute_minDCF", DCFArgs(a, b, c))
     \/ \E a \in [1..1 -> Rates], c \in DCFCosts :
          mt = Call("compute_minDCF", DCFArgs(a, <<>>, c))
DetNext == det_curve_call \/ compute_minDCF_call
SpecDet == DetInit /\ [][DetNext]_vars

CavgInit ==
  /\ MetricsIdle
  /\ \/ \E K \in 1..3, n \in 0..MaxUtts :
          \E X \in [1..n -> LlrRows(K)], y \in [1..n -> 0..(K - 1)],
             c \in CavgSettings(K) :
            mt = Call("Cavg", CavgArgs(X, K, y, c, FALSE))
     \/ \E n \in 1..MaxUtts :
          \E X \in [1..n -> ProbRows], y \in [1..n -> 0..1] :
            mt = Call("Cavg", CavgArgs(X, 2, y, <<NoneC, Frac(1, 2), 1, 1>>, TRUE))
CavgNext == Cavg_call
SpecCavg == CavgInit /\ [][CavgNext]_vars

LevInit ==
  /\ MetricsIdle
  /\ \/ \E a \in LevArgs : mt = Call("LevenshteinDistance", a)
     \/ \E tn \in BOOLEAN, pn \in BOOLEAN :
          \E a \in LERArgs(tn, pn) : mt = Call("LER", a)
LevNext == LevenshteinDistance_call \/ LER_call
SpecLev == LevInit /\ [][LevNext]_vars

RolesInit ==
  /\ self = PLDA__init__(1, 0, NoneL, 0)
  /\ fitpc = "idle"
  /\ loc = NoLoc
  /\ ret = NoRet
  /\ defs = <<>>
  /\ sc = NoScore
  /\ mt = NoCall
  /\ tag = NoTag
RolesNext == add_role_call
SpecRoles == RolesInit /\ [][RolesNext]_vars

\* expectation_plda is called with the per-class sums F of 1..MaxClasses
\* classes and their sample counts (0 for a label that does not occur), or
\* with one count too few or too many
ExpInit ==
  /\ MetricsIdle
  /\ \E K \in 1..MaxClasses :
       \E F \in [1..K -> {<<1, 0>>, <<0, 2>>}],
          Sigma_diag \in {<<1, 1>>, <<2, 1>>, <<0 - 1, 1>>},
          Phi \in {<<1, 0>>, <<1, 1>>} :
         \/ \E cls_counts \in [1..K -> 0..2] :
              mt = Call("expectation_plda",
                        [Sigma_diag |-> Sigma_diag, Phi |-> Phi, F |-> F,
                         cls_counts |-> cls_counts])
         \/ \E cls_counts \in [1..(K + 1) -> {2}] \cup [1..(K - 1) -> {2}] :
              mt = Call("expectation_plda",
                        [Sigma_diag |-> Sigma_diag, Phi |-> Phi, F |-> F,
                         cls_counts |-> cls_counts])

SpecExp == ExpInit /\ [][expectation_call]_vars

\* fit is called with 1..MaxLabelled samples whose labels are any of -1..2
\* (so: negative labels, gaps, labels beyond the class count), with or
\* without two labels given to the constructor, or with one sample more
\* than labels
FitInit ==
  /\ MetricsIdle
  /\ \E n \in 1..MaxLabelled :
       \E y \in [1..n -> (0 - 1)..2], labels0 \in {NoneL, <<100, 101>>},
          num_phi \in 1..2 :
         \/ \E X \in [1..n -> {<<1, 0>>, <<0, 2>>}] :
              mt = Call("fit", [num_phi |-> num_phi, labels0 |-> labels0,
                                X |-> X, y |-> y])
         \/ mt = Call("fit", [num_phi |-> num_phi, labels0 |-> labels0,
                              X |-> [i \in 1..(n + 1) |-> <<1, 0>>], y |-> y])

SpecFit == FitInit /\ [][fit_begin_call]_vars

\* ---------------------------------------------------------------- specification
Init ==
  /\ \E a \in CtorArgs : self = PLDA__init__(a[1], a[2], a[3], a[4])
  /\ fitpc = "idle"
  /\ loc = NoLoc
  /\ ret = NoRet
  /\ defs = <<>>
  /\ sc = NoScore
  /\ mt = NoCall
  /\ tag = NoTag

Next ==
  \/ fit_maximum_likelihood
  \/ fit_begin
  \/ expectation_plda
  \/ maximization_plda
  \/ loop_end
  \/ fit_scatter
  \/ fit_update_caches
  \/ fit_X_model
  \/ transform
  \/ predict_log_proba
  \/ getstate
  \/ setstate

Spec == Init /\ [][Next]_vars

\* ---------------------------------------------------------------- properties
\* the two fitting calls, as the properties name them
Fits == {"fit", "fit_maximum_likelihood"}

\* C1: on an instance that is not fitted, transform, predict_log_proba and
\* __getstate__ raise the "not fitted" RuntimeError, return nothing and leave
\* every field of the instance as it was.
C1_NotFittedRaises ==
  [][(fitpc = "idle" /\ ~ is_fitted(self)
        /\ ret'.op \in {"transform", "predict_log_proba", "__getstate__"})
     => (ret'.err = "RuntimeError" /\ ret'.val = NoneM /\ ret'.tuple = NoBundle
           /\ self' = self)]_vars

\* an instance on which a fit raised half way (Sigma_ allocated, St_ set, no
\* caches) has just been refused by one of the three calls
C1_Witness ==
  /\ ret.op \in {"transform", "predict_log_proba", "__getstate__"}
  /\ ret.err = "RuntimeError"
  /\ ~ is_fitted(self)
  /\ self.Sigma_ # NoneM

\* C2 (as claimed): once feat_dim and the labels are locked, a later fit or
\* fit_maximum_likelihood whose data has another feature dimension or another
\* number of classes raises ValueError and keeps feat_dim and labels.
C2_MismatchIsValueError ==
  [][(fitpc = "idle" /\ self.feat_dim # None /\ ret'.op \in Fits
        /\ ret'.at # "assert"
        /\ (ret'.d # self.feat_dim \/ ret'.k # num_classes(self)))
     => (ret'.err = "ValueError" /\ self'.feat_dim = self.feat_dim
           /\ self'.labels = self.labels)]_vars

\* C3 (as claimed): an instance whose num_phi >= feat_dim has failed before
\* any data was seen, that is with its normalizer not fitted.
C3_FailsBeforeData ==
  (self.feat_dim # None /\ self.num_phi >= self.feat_dim)
    => self.normalizer = "unfitted"

\* C3 (amended): the first fit or fit_maximum_likelihood call that reaches
\* initialize with data of feature dimension <= num_phi raises RuntimeError
\* there, after the normalizer was fitted on the data and feat_dim was
\* assigned, and before Sigma_, Phi_, Sb_, St_ are allocated.
C3_FailsInInitialize ==
  [][(fitpc = "idle" /\ self.feat_dim = None /\ ret'.op \in Fits
        /\ ret'.at \notin {"assert", "bincount"}
        /\ ret'.d <= self.num_phi)
     => (ret'.err = "RuntimeError" /\ ret'.at = "initialize"
           /\ self'.feat_dim = ret'.d /\ self'.normdim = ret'.d
           /\ self'.normalizer # "unfitted"
           /\ self'.Sigma_ = NoneM /\ self'.Phi_ = NoneM
           /\ self'.Sb_ = NoneM /\ self'.St_ = NoneM
           /\ ~ is_fitted(self') /\ fitpc' = "idle")]_vars

C3_Witness ==
  /\ ret.op \in Fits /\ ret.err = "RuntimeError" /\ ret.at = "initialize"
  /\ self.feat_dim # None /\ self.feat_dim <= self.num_phi
  /\ self.normalizer # "unfitted"

\* C4: between public calls, whenever Lambda_, Uk_ and Q_hat_ exist they are
\* what _update_caches computes from the current Sb_, St_ and num_phi.
C4_CachesFresh ==
  (fitpc = "idle" /\ self.Lambda_ # Absent /\ self.Uk_ # Absent /\ self.Q_hat_ # Absent)
    => /\ self.Lambda_ = LambdaOf(self.Sb_, self.St_, self.num_phi)
       /\ self.Uk_ = UkOf(self.Sb_, self.St_, self.num_phi)
       /\ self.Q_hat_ = Q_hatOf(self.Sb_, self.St_, self.num_phi)

\* a fit call has just raised on an instance that has caches
C4_Witness ==
  /\ fitpc = "idle" /\ is_fitted(self)
  /\ ret.op \in Fits /\ ret.err # NoErr

C6_ExpectationBeforeMaximization ==
  /\ [](fitpc = "M" =>
          /\ loc.Ey = EyOf(self.Phi_, self.Sigma_, loc.F, loc.y_counts)
          /\ loc.Eyy = EyyOf(self.Phi_, self.Sigma_, loc.F, loc.y_counts))
  /\ []((fitpc = "E" /\ loc.iter = 0) =>
          /\ self.Sigma_ = Sigma_init([self EXCEPT !.rand_state = @ - 2])
          /\ self.Phi_ = Phi_init([self EXCEPT !.rand_state = @ - 1]))
  /\ [][/\ fitpc = "E" => self' = self
        /\ (fitpc \notin {"idle", "M"})
             => (self'.Phi_ = self.Phi_ /\ self'.Sigma_ = self.Sigma_)
        /\ (fitpc = "M" /\ fitpc' = "llk")
             => /\ self'.Phi_ = Named(defs', PhiOf(loc.Ey, loc.Eyy, loc.F))
                /\ self'.Sigma_ =
                     Named(defs', SigmaOf(loc.X, loc.X_sqr, self'.Phi_, loc.Ey, loc.F))
        /\ (fitpc = "llk" /\ fitpc' = "E")
             => (self' = self /\ loc'.Ey = loc.Ey /\ loc'.Eyy = loc.Eyy)]_vars

\* the expectation step of a second round has returned
C6_Witness ==
  /\ fitpc = "M" /\ loc.iter >= 1
  /\ loc.Ey = EyOf(self.Phi_, self.Sigma_, loc.F, loc.y_counts)

\* C7 (as claimed): the log-likelihood diagnostic cannot abort a fit.
C7_LlkNeverAborts ==
  (fitpc = "idle" /\ ret.op = "fit" /\ ret.err # NoErr) => ret.at # "compute_llk"

\* C8 (as claimed): __setstate__ refuses a tuple whose num_phi or feat_dim
\* differ from those of the instance, and leaves the instance unchanged.
C8_SetstateRejects ==
  [][(fitpc = "idle" /\ ret'.op = "__setstate__"
        /\ (ret'.tuple[1] # self.num_phi
              \/ (self.feat_dim # None /\ ret'.tuple[3] # self.feat_dim)))
     => (ret'.err # NoErr /\ self' = self)]_vars

\* C9: on a fitted instance, a supplied X_model whose number of rows is not
\* the number of classes makes predict_log_proba raise ValueError and return
\* nothing, and with X_model = None the test of the row count never fails.
C9_ModelRowsChecked ==
  (fitpc = "idle" /\ is_fitted(self)) =>
    \A X \in QueryX :
      /\ \A Xm \in QueryModels(X) \ {NoneM} :
           Xm.rows # num_classes(self) =>
             /\ predict_result(self, X, Xm).err = "ValueError"
             /\ predict_result(self, X, Xm).val = NoneM
      /\ predict_result(self, X, NoneM).at # "num_classes"
      /\ self.X_model_.rows = num_classes(self)

\* predict_log_proba has just refused a supplied X_model for its row count
C9_Witness ==
  /\ is_fitted(self)
  /\ ret.op = "predict_log_proba" /\ ret.err = "ValueError" /\ ret.at = "num_classes"

\* the rows the claim speaks of: sample i normalized and projected by Uk,
\* and row c of the stored X_model_ or of the normalized, projected X_model
SampleRow(i) ==
  [j \in 1..ncols(sc.m.Uk_) |->
     SumTo([a \in 1..nrows(sc.m.Uk_) |->
              vn_transform(sc.X, sc.m.mean, sc.m.W)[i][a] * sc.m.Uk_[a][j]],
           nrows(sc.m.Uk_))]
ModelRow(c) ==
  IF sc.X_model = <<>> THEN sc.m.X_model_[c]
  ELSE [j \in 1..ncols(sc.m.Uk_) |->
          SumTo([a \in 1..nrows(sc.m.Uk_) |->
                   vn_transform(sc.X_model, sc.m.mean, sc.m.W)[c][a] * sc.m.Uk_[a][j]],
                nrows(sc.m.Uk_))]

\* u . A . v^T
Bilinear(u, A, v) ==
  SumTo([a \in 1..Len(u) |->
           SumTo([b \in 1..Len(v) |-> u[a] * A[a][b] * v[b]], Len(v))], Len(u))

\* C10: the matrix predict_log_proba returns has one row per sample and one
\* column per class, and its entry [i][c] is
\* 2 x_i Lambda m_c^T + m_c Q_hat m_c^T + x_i Q_hat x_i^T.
C10_ScoreFormula ==
  (sc.called /\ sc.err = NoErr) =>
    /\ sc.val # <<>>
    /\ nrows(sc.val) = nrows(sc.X)
    /\ \A i \in 1..nrows(sc.X) :
         /\ Len(sc.val[i]) = sc.m.num_classes
         /\ \A c \in 1..sc.m.num_classes :
              sc.val[i][c] = 2 * Bilinear(SampleRow(i), sc.m.Lambda_, ModelRow(c))
                               + Bilinear(ModelRow(c), sc.m.Q_hat_, ModelRow(c))
                               + Bilinear(SampleRow(i), sc.m.Q_hat_, SampleRow(i))

\* scores were returned for two samples and a supplied X_model, and the
\* two classes got different scores
C10_Witness ==
  /\ sc.called /\ sc.err = NoErr
  /\ nrows(sc.X) = 2 /\ sc.X_model # <<>>
  /\ sc.val[1][1] # sc.val[1][2] /\ sc.val[1][1] # sc.val[2][1]

\* ---------------------------------------------------------------- properties of the metrics
\* det_curve was called and returned
DetReturned == mt.fn = "det_curve" /\ mt.called /\ mt.err = NoErr

\* the number of true and of false trials among the sorted rows
NbTrue == Cardinality({i \in 1..Len(mt.out.scores_) : mt.out.scores_[i][2] = 1})
NbFalse == Cardinality({i \in 1..Len(mt.out.scores_) : mt.out.scores_[i][2] = 0})

\* C11: det_curve returns Pmiss, Pfa and thresholds of the same length
\* n_true + n_false, thresholds being the sorted scores, one per trial.
C11_ThreeArraysOfEqualLength ==
  DetReturned =>
    /\ Len(mt.out.Pmiss) = NbTrue + NbFalse
    /\ Len(mt.out.Pfa) = NbTrue + NbFalse
    /\ Len(mt.out.threshold) = NbTrue + NbFalse
    /\ \A i \in 1..Len(mt.out.threshold) : mt.out.threshold[i] = mt.out.scores_[i][1]

DCFReturned == mt.fn = "compute_minDCF" /\ mt.called /\ mt.err = NoErr

\* Cmiss*pmiss*Ptrue + Cfa*pfa*(1 - Ptrue) as one fraction
DCFAt(pmiss, pfa, Cmiss, Cfa, Ptrue) ==
  Frac(Cmiss * pmiss.num * Ptrue.num * pfa.den
         + Cfa * pfa.num * (Ptrue.den - Ptrue.num) * pmiss.den,
       pmiss.den * pfa.den * Ptrue.den)

\* C14: compute_minDCF takes its first array as Pmiss and its second as Pfa
\* and returns the cost and the two rates at the smallest index k where
\* Cmiss*Pmiss*Ptrue + Cfa*Pfa*(1-Ptrue) is minimal.
C14_MinDCFFirstMinimum ==
  DCFReturned =>
    LET a == mt.args
        DCF == [i \in 1..Len(a.fpr) |-> DCFAt(a.fpr[i], a.fnr[i], a.Cmiss, a.Cfa, a.Ptrue)]
    IN \E k \in 1..Len(a.fpr) :
         /\ \A i \in 1..Len(a.fpr) : RLeq(DCF[k], DCF[i])
         /\ \A i \in 1..(k - 1) : RLt(DCF[k], DCF[i])
         /\ mt.out.min_val = DCF[k]
         /\ mt.out.Pmiss = a.fpr[k]
         /\ mt.out.Pfa = a.fnr[k]
         /\ \A i \in 1..Len(a.fpr) : RLeq(mt.out.min_val, DCF[i])

\* a three-point curve with unequal costs whose minimum is reached at the
\* second and the third point with different rates, and the second is returned
C14_Witness ==
  /\ DCFReturned /\ Len(mt.args.fpr) = 3 /\ mt.args.Cmiss # mt.args.Cfa
  /\ mt.out.DCF_vector[2] = mt.out.DCF_vector[3]
  /\ RLt(mt.out.DCF_vector[2], mt.out.DCF_vector[1])
  /\ mt.args.fpr[2] # mt.args.fpr[3]
  /\ mt.out.Pmiss = mt.args.fpr[2]

\* Cavg was called (array path) / was called and returned
CavgCalled == mt.fn = "Cavg" /\ mt.called
CavgReturned == CavgCalled /\ mt.err = NoErr

\* the log-likelihood ratio of sample s for class c (0-based) in the call
LlrOf(s, c) ==
  IF mt.args.probability_input THEN Logit(mt.args.y_llr[s][c + 1])
  ELSE mt.args.y_llr[s][c + 1]

\* the samples of class c
SamplesOf(c) == {s \in 1..Len(mt.args.y_true) : mt.args.y_true[s] = c}

\* the clusters of the call: the given list, or all classes in one cluster
ClustersOf ==
  IF mt.args.cluster_idx = NoneC
  THEN << [c \in 1..mt.args.nb_classes |-> c - 1] >>
  ELSE mt.args.cluster_idx

\* every own-class llr is positive and every cross-class llr negative
PerfectlySeparated ==
  \A s \in 1..Len(mt.args.y_true) : \A c \in 0..(mt.args.nb_classes - 1) :
    IF mt.args.y_true[s] = c THEN LlrOf(s, c) > 0 ELSE LlrOf(s, c) < 0

\* C15: with Ptar = 0.5, Cfa = 1, Cmiss = 1 the threshold is 0, and for two
\* perfectly separated classes Cavg returns total cost 0 and every cluster
\* cost 0.
C15_SeparatedCostsNothing ==
  (CavgCalled /\ mt.args.Ptar = Frac(1, 2) /\ mt.args.Cfa = 1 /\ mt.args.Cmiss = 1) =>
    /\ mt.out.thresh = 0
    /\ (mt.args.nb_classes = 2 /\ PerfectlySeparated
          /\ \A k \in 1..Len(ClustersOf) : Len(ClustersOf[k]) = 2) =>
         /\ mt.err = NoErr
         /\ mt.out.total_cost = Frac(0, 1)
         /\ \A k \in 1..Len(mt.out.cluster_cost) : mt.out.cluster_cost[k] = Frac(0, 1)

\* two samples, one of each of two perfectly separated classes, default costs
C15_Witness ==
  /\ CavgReturned /\ mt.args.nb_classes = 2 /\ PerfectlySeparated
  /\ mt.args.Ptar = Frac(1, 2) /\ mt.args.Cfa = 1 /\ mt.args.Cmiss = 1
  /\ SamplesOf(0) # {} /\ SamplesOf(1) # {}
  /\ mt.out.total_cost = Frac(0, 1)

RECURSIVE ProdTo(_, _)
ProdTo(f, n) == IF n = 0 THEN 1 ELSE f[n] * ProdTo(f, n - 1)

\* the cost of a cluster as C16 states it, as one fraction: the fractions
\* of the samples of the classes are brought to the common denominator D
ClusterCostOf(cluster, thresh) ==
  LET L == Len(cluster)
      n == [i \in 1..L |-> IF SamplesOf(cluster[i]) = {} THEN 1
                            ELSE Cardinality(SamplesOf(cluster[i]))]
      D == ProdTo(n, L)
      miss == [i \in 1..L |->
                 Cardinality({s \in SamplesOf(cluster[i]) : LlrOf(s, cluster[i]) < thresh})
                   * (D \div n[i])]
      fa == [i \in 1..L |->
               SumTo([j \in 1..L |->
                        IF j = i THEN 0
                        ELSE Cardinality({s \in SamplesOf(cluster[i]) :
                                            LlrOf(s, cluster[j]) >= thresh})],
                     L) * (D \div n[i])]
  IN Frac(100 * (mt.args.Cmiss * mt.args.Ptar.num * SumTo(miss, L) * (L - 1)
                   + mt.args.Cfa * (mt.args.Ptar.den - mt.args.Ptar.num) * SumTo(fa, L)),
          mt.args.Ptar.den * D * (L - 1) * L)

\* the sum of integer fractions over a common denominator
SumOverDen(q) ==
  LET D == ProdTo([k \in 1..Len(q) |-> q[k].den], Len(q)) IN
  Frac(SumTo([k \in 1..Len(q) |-> q[k].num * (D \div q[k].den)], Len(q)), D)

\* C16: each cluster cost is 100*(Cmiss*Ptar*M + Cfa*(1-Ptar)*F/(L-1))/L with
\* M the summed miss fractions and F the summed false-alarm fractions of
\* the cluster, the total cost is the mean of the cluster costs, and with
\* cluster_idx = None there is one cluster of all classes.
C16_ClusterCostFormula ==
  CavgReturned =>
    /\ Len(mt.out.cluster_cost) = Len(ClustersOf)
    /\ mt.args.cluster_idx = NoneC => Len(mt.out.cluster_cost) = 1
    /\ \A k \in 1..Len(ClustersOf) :
         mt.out.cluster_cost[k] = ClusterCostOf(ClustersOf[k], mt.out.thresh)
    /\ LET sum == SumOverDen(mt.out.cluster_cost) IN
       mt.out.total_cost = Frac(sum.num, sum.den * Len(ClustersOf))

\* two clusters with different costs, one of them with misses and false
\* alarms
C16_Witness ==
  /\ CavgReturned /\ Len(mt.out.cluster_cost) = 2
  /\ mt.out.cluster_cost[1] # mt.out.cluster_cost[2]
  /\ \E k \in 1..2 : \E i, j \in 1..Len(ClustersOf[k]) :
       /\ i # j
       /\ mt.out.errs[k][i][i] # Frac(0, 1)
       /\ mt.out.errs[k][i][j] # Frac(0, 1)

\* C17: a class of a cluster without samples has its count floored to 1,
\* adds 0 to the miss and to the false-alarm sum, and the cluster costs are
\* finite; a call whose clusters all have two or more classes of the array
\* returns.
C17_EmptyClassFlooredToOne ==
  CavgCalled =>
    /\ mt.err = NoErr =>
         /\ \A k \in 1..Len(ClustersOf) : \A i \in 1..Len(ClustersOf[k]) :
              SamplesOf(ClustersOf[k][i]) = {} =>
                /\ mt.out.N[k][i] = 1
                /\ \A j \in 1..Len(ClustersOf[k]) : mt.out.errs[k][i][j] = Frac(0, 1)
         /\ \A k \in 1..Len(ClustersOf) : Finite(mt.out.cluster_cost[k])
         /\ Finite(mt.out.total_cost)
    /\ (\A k \in 1..Len(ClustersOf) :
          /\ Len(ClustersOf[k]) >= 2
          /\ \A i \in 1..Len(ClustersOf[k]) : ClustersOf[k][i] < mt.args.nb_classes)
         => mt.err = NoErr

\* a returned call with samples, a class without samples in a cluster and a
\* cost that is not zero
C17_Witness ==
  /\ CavgReturned /\ Len(mt.args.y_true) >= 1
  /\ \E k \in 1..Len(ClustersOf) : \E i \in 1..Len(ClustersOf[k]) :
       /\ SamplesOf(ClustersOf[k][i]) = {}
       /\ mt.out.cluster_cost[k] # Frac(0, 1)

\* the classic edit distance: the least number of insertions, deletions and
\* substitutions of single elements that turn a into b
RECURSIVE EditDistance(_, _)
EditDistance(a, b) ==
  IF a = <<>> THEN Len(b)
  ELSE IF b = <<>> THEN Len(a)
  ELSE IF Head(a) = Head(b) THEN EditDistance(Tail(a), Tail(b))
  ELSE 1 + Min2(EditDistance(Tail(a), Tail(b)),
                Min2(EditDistance(Tail(a), b), EditDistance(a, Tail(b))))

\* C18: LevenshteinDistance(s1, s2) is the classic edit distance of s1 and
\* s2, whichever is longer and also when one is empty; it is 3 for "kitten"
\* and "sitting".
C18_LevenshteinIsEditDistance ==
  (mt.fn = "LevenshteinDistance" /\ mt.called) =>
    /\ mt.out = EditDistance(mt.args.s1, mt.args.s2)
    /\ (mt.args.s1 = <<"k", "i", "t", "t", "e", "n">>
          /\ mt.args.s2 = <<"s", "i", "t", "t", "i", "n", "g">>) => mt.out = 3

\* the distance of "kitten" and "sitting" was computed
C18_Witness ==
  /\ mt.fn = "LevenshteinDistance" /\ mt.called
  /\ mt.args.s1 = <<"k", "i", "t", "t", "e", "n">>
  /\ mt.args.s2 = <<"s", "i", "t", "t", "i", "n", "g">>
  /\ mt.out = 3

\* the reference and the predicted sequences of a LER call, pair by pair
LerTrue == IF mt.args.true_nested THEN mt.args.y_true ELSE <<mt.args.y_true>>
LerPred == IF mt.args.pred_nested THEN mt.args.y_pred ELSE <<mt.args.y_pred>>
LerPairs == Min2(Len(LerTrue), Len(LerPred))

\* C19: LER divides the edit distance of each aligned pair by the length of
\* the reference sequence and returns the mean of these values if
\* return_mean, else their list; identical sequences give 0 and one
\* substitution in a reference of length 3 gives 1/3.
C19_LERIsMeanOfDistanceOverLength ==
  (mt.fn = "LER" /\ mt.called) =>
    /\ mt.err = NoErr =>
         LET per == [i \in 1..LerPairs |->
                       Frac(EditDistance(LerTrue[i], LerPred[i]), Len(LerTrue[i]))]
             sum == SumOverDen(per)
         IN /\ \A i \in 1..LerPairs : Len(LerTrue[i]) > 0
            /\ mt.args.return_mean => mt.out.mean = Frac(sum.num, sum.den * LerPairs)
            /\ ~ mt.args.return_mean => mt.out.results = per
            /\ (mt.args.return_mean /\ LerTrue = LerPred) => mt.out.mean = Frac(0, 1)
            /\ (mt.args.return_mean /\ LerTrue = << <<"a", "b", "c">> >>
                  /\ LerPred = << <<"a", "x", "c">> >>) => mt.out.mean = Frac(1, 3)
    /\ (mt.args.y_true # <<>> /\ mt.args.y_pred # <<>>
          /\ \A i \in 1..LerPairs : Len(LerTrue[i]) > 0) => mt.err = NoErr

\* LER([["a","b","c"]], [["a","x","c"]]) returned 1/3, the mean
C19_Witness ==
  /\ mt.fn = "LER" /\ mt.called /\ mt.err = NoErr /\ mt.args.return_mean
  /\ mt.args.true_nested /\ mt.args.pred_nested
  /\ mt.args.y_true = << <<"a", "b", "c">> >>
  /\ mt.args.y_pred = << <<"a", "x", "c">> >>
  /\ mt.out.mean = Frac(1, 3)

\* ---------------------------------------------------------------- properties of add_role
\* C20: the role list never holds two roles of which one's class is the
\* class or an ancestor of the class of the other.
C20_NoRoleWithItsAncestor ==
  \A i, j \in 1..Len(tag.roles) :
    i # j => ~ isinstance(tag.roles[i], tag.roles[j])

\* C20 amended: a role is not added when a role of a subclass is in the
\* list; adding a role other than TRAINING and DEPLOYING removes the roles
\* of its ancestor classes; the list never holds two roles of which one's
\* class is the class or an ancestor of the class of the other, except a
\* direct instance of the base class VariableRole followed by TRAINING or
\* DEPLOYING, which add_role does not remove.
C20_MostSpecificExceptBase ==
  /\ [](\A i, j \in 1..Len(tag.roles) :
          (i # j /\ isinstance(tag.roles[i], tag.roles[j])) =>
            /\ tag.roles[j] = "VariableRole"
            /\ tag.roles[i] \in {"TrainingRole", "DeployingRole"}
            /\ j < i)
  /\ [][LET role == tag'.added IN
        /\ (\E i \in 1..Len(tag.roles) :
              tag.roles[i] # role /\ isinstance(tag.roles[i], role)) =>
             \A i \in 1..Len(tag'.roles) : tag'.roles[i] # role
        /\ role \notin {"TrainingRole", "DeployingRole"} =>
             \A i \in 1..Len(tag'.roles) :
               tag'.roles[i] # role => ~ isinstance(role, tag'.roles[i])]_vars

\* WEIGHT was added to a list holding FILTER and BIAS and was not stored
C20_Witness ==
  /\ tag.added = "WeightRole"
  /\ \E i \in 1..Len(tag.roles) : tag.roles[i] = "FilterRole"
  /\ \E i \in 1..Len(tag.roles) : tag.roles[i] = "BiasRole"
  /\ \A i \in 1..Len(tag.roles) : tag.roles[i] \notin {"WeightRole", "ParameterRole"}

\* ---------------------------------------------------------------- the life cycle of PLDA, again
\* C21 (as claimed): an instance that was not fitted becomes fitted only by
\* a fit or fit_maximum_likelihood call.
C21_OnlyAFitMakesFitted ==
  [][(~ is_fitted(self) /\ is_fitted(self')) => ret'.op \in Fits]_vars

\* C21 (amended): a fresh instance is not fitted; an instance that is not
\* fitted becomes fitted only at the return of a fit or
\* fit_maximum_likelihood call that has assigned Lambda_, Uk_, Q_hat_ and
\* X_model_ (never after initialize alone or half way through a fit), or by
\* __setstate__ assigning the four from a tuple; a fit call that returns
\* leaves the instance fitted; a fitted instance stays fitted whatever is
\* called.
C21_ForwardOnly ==
  /\ [](ret = NoRet => ~ is_fitted(self))
  /\ []((fitpc = "idle" /\ ret.op \in Fits /\ ret.err = NoErr) => is_fitted(self))
  /\ [][/\ is_fitted(self) => is_fitted(self')
        /\ (~ is_fitted(self) /\ is_fitted(self')) =>
             \/ /\ ret'.op \in Fits /\ ret'.err = NoErr /\ ret'.at = "done"
                /\ fitpc' = "idle"
                /\ self'.Lambda_ = LambdaOf(self'.Sb_, self'.St_, self'.num_phi)
                /\ self'.Uk_ = UkOf(self'.Sb_, self'.St_, self'.num_phi)
                /\ self'.Q_hat_ = Q_hatOf(self'.Sb_, self'.St_, self'.num_phi)
                /\ self'.X_model_.rows = ret'.k
                /\ self'.X_model_.cols = self'.num_phi
             \/ /\ ret'.op = "__setstate__"
                /\ self' = FromTuple(ret'.tuple)]_vars

\* a fit has just been refused in initialize on a fitted instance, which is
\* still fitted
C21_Witness ==
  /\ fitpc = "idle" /\ is_fitted(self)
  /\ ret.op \in Fits /\ ret.err # NoErr /\ ret.at = "initialize"
  /\ self.X_model_ # Absent

\* the caches of instance s
Caches(s) == <<s.Lambda_, s.Uk_, s.Q_hat_>>

\* C22: when fit returns without error, Sb_ = Phi_ Phi_^T and
\* St_ = Sb_ + Sigma_ for the Phi_ and Sigma_ the last maximization step
\* assigned; the two were assigned first (the caches untouched by that
\* step), then the caches were refreshed from them, then X_model_ was
\* computed from the refreshed Uk_.
C22_PostLoopOrder ==
  /\ []((fitpc \in {"post", "caches", "X_model"} /\ ret.m_steps > 0) =>
          /\ self.Phi_ = Named(defs, PhiOf(loc.Ey, loc.Eyy, loc.F))
          /\ self.Sigma_ = Named(defs, SigmaOf(loc.X, loc.X_sqr, self.Phi_, loc.Ey, loc.F)))
  /\ []((fitpc = "idle" /\ ret.op = "fit" /\ ret.err = NoErr) =>
          /\ self.Sb_ = dot(self.Phi_, T(self.Phi_))
          /\ self.St_ = Mat(self.Sb_.rows, self.Sb_.cols,
                            Fn2("add", self.Sb_.val, self.Sigma_.val))
          /\ Caches(self) = Caches(update_caches(self))
          /\ \E y \in Ys :
               self.X_model_ =
                 X_modelOf(self.Uk_,
                           normalizer_transform(self, DataX(y, ret.d, Len(y))),
                           unique(y)))
  /\ [][/\ fitpc = "post" =>
             /\ fitpc' = "caches"
             /\ Caches(self') = Caches(self) /\ self'.X_model_ = self.X_model_
             /\ self'.Phi_ = self.Phi_ /\ self'.Sigma_ = self.Sigma_
             /\ self'.Sb_ = dot(self.Phi_, T(self.Phi_))
             /\ self'.St_ = Mat(self'.Sb_.rows, self'.Sb_.cols,
                                Fn2("add", self'.Sb_.val, self.Sigma_.val))
        /\ (fitpc = "caches" /\ fitpc' # "idle") =>
             /\ fitpc' = "X_model"
             /\ self' = update_caches(self)
             /\ self'.X_model_ = self.X_model_
        /\ fitpc = "X_model" =>
             /\ fitpc' = "idle" /\ ret'.at = "done" /\ ret'.err = NoErr
             /\ self' = [self EXCEPT !.X_model_ = X_modelOf(self.Uk_, loc.X, loc.classes)]
        /\ (ret'.op = "fit" /\ ret'.at = "done" /\ ret.at # "done") => fitpc = "X_model"]_vars

\* a fit with at least one maximization step has returned
C22_Witness ==
  /\ fitpc = "idle" /\ ret.op = "fit" /\ ret.err = NoErr /\ ret.at = "done"
  /\ ret.m_steps >= 1
  /\ self.Sb_ = dot(self.Phi_, T(self.Phi_))
  /\ self.Uk_ = UkOf(self.Sb_, self.St_, self.num_phi)

\* ---------------------------------------------------------------- properties of the expectation step
ExpReturned == mt.fn = "expectation_plda" /\ mt.called /\ mt.err = NoErr

\* inv(I + n Phi^T Sigma^-1 Phi) for the count n, computed directly
PosteriorCov(n) ==
  LET P == PhiT_invS_of(mt.args.Sigma_diag, mt.args.Phi)
      m == RSum([i \in 1..2 |-> RMul(P[i], Frac(mt.args.Phi[i], 1))])
  IN RDiv(Frac(1, 1), RAdd(Frac(1, 1), RMul(Frac(n, 1), m)))

\* Cyy_c Phi^T Sigma^-1 F[c] for class c, computed directly
PosteriorMean(c) ==
  LET P == PhiT_invS_of(mt.args.Sigma_diag, mt.args.Phi) IN
  RMul(PosteriorCov(mt.args.cls_counts[c]),
       RSum([i \in 1..2 |-> RMul(P[i], Frac(mt.args.F[c][i], 1))]))

\* C23: what expectation_plda returns is the unbucketed computation: the
\* covariance used for class c is inv(I + n_c Phi^T Sigma^-1 Phi) for the
\* class's own count, one inverse is computed per distinct count,
\* Ey[c] = Cyy_c Phi^T Sigma^-1 F[c] and
\* Eyy = sum_c n_c Cyy_c + sum_c n_c Ey[c]^T Ey[c].
C23_BucketingIsPerClass ==
  ExpReturned =>
    LET n == mt.args.cls_counts
        K == Len(mt.args.F)
    IN
    /\ Len(mt.out.Ey) = K
    /\ \A c \in 1..K : mt.out.Ey[c] = PosteriorMean(c)
    /\ mt.out.Eyy =
         RAdd(RSum([c \in 1..K |-> RMul(Frac(n[c], 1), PosteriorCov(n[c]))]),
              RSum([c \in 1..K |->
                      RMul(Frac(n[c], 1), RMul(PosteriorMean(c), PosteriorMean(c)))]))
    /\ Len(mt.out.invTerms) = Cardinality({n[c] : c \in 1..K})
    /\ \A c \in 1..K :
         \E ix \in 1..Len(mt.out.invTerms) :
           mt.out.uniqFreqs[ix] = n[c] /\ mt.out.invTerms[ix] = PosteriorCov(n[c])

\* three classes were given, the first and the third with the same count
\* and the second with another, and the posterior means of the first two
\* differ
C23_Witness ==
  /\ ExpReturned
  /\ Len(mt.args.F) = 3
  /\ mt.args.cls_counts[1] = mt.args.cls_counts[3]
  /\ mt.args.cls_counts[1] # mt.args.cls_counts[2]
  /\ Len(mt.out.invTerms) = 2
  /\ mt.out.Ey[1] # mt.out.Ey[2]

\* ---------------------------------------------------------------- pickling
\* the sixteen values of instance s are those of tuple t, position by position
SamePositions(s, t) ==
  /\ Len(t) = 16
  /\ t[1] = s.num_phi /\ t[2] = s.num_iter /\ t[3] = s.feat_dim /\ t[4] = s.labels
  /\ t[5] = s.verbose_ /\ t[6] = <<s.normalizer, s.normdim>> /\ t[7] = s.dtype
  /\ t[8] = s.rand_state
  /\ t[9] = s.Sigma_ /\ t[10] = s.Phi_ /\ t[11] = s.Sb_ /\ t[12] = s.St_
  /\ t[13] = s.Lambda_ /\ t[14] = s.Uk_ /\ t[15] = s.Q_hat_ /\ t[16] = s.X_model_

\* C24: __getstate__ of a fitted instance returns its sixteen fields in the
\* documented order; __setstate__ given such a tuple leaves an instance
\* whose sixteen fields are the entries of the tuple in the same positions,
\* and that instance is fitted; applied to the tuple the instance itself
\* just returned it leaves every field as it was.
C24_PickleRoundTrip ==
  [][/\ (ret'.op = "__getstate__" /\ ret'.err = NoErr) =>
          (is_fitted(self) /\ SamePositions(self, ret'.tuple) /\ self' = self)
     /\ ret'.op = "__setstate__" =>
          /\ ret'.err = NoErr
          /\ SamePositions(self', ret'.tuple)
          /\ is_fitted(self')
          /\ (ret.op = "__getstate__" /\ ret.tuple = ret'.tuple) => self' = self]_vars

\* a tuple taken from another fitted instance, of another num_phi, has
\* been restored into this one
C24_Witness ==
  /\ ret.op = "__setstate__" /\ ret.err = NoErr
  /\ is_fitted(self)
  /\ SamePositions(self, ret.tuple)
  /\ self.Sb_ # self.St_
  /\ self.num_phi = MaxPhi /\ self.feat_dim = MaxPhi + 1

Allocated(s) == <<s.Sigma_, s.Phi_, s.Sb_, s.St_>>

\* C26: when the first initialize rejects the data for feat_dim <= num_phi,
\* feat_dim has been assigned from the data, and so have the labels if the
\* constructor got none, while Sigma_, Phi_, Sb_ and St_ are None and the
\* instance is not fitted; feat_dim, once set, is never None again; and a
\* later fit or fit_maximum_likelihood call on an instance whose feat_dim
\* is set does not enter the allocation branch: it leaves the four
\* matrices and the random state as they were.
C26_RejectedInitializeKeepsFeatDim ==
  /\ [][(fitpc = "idle" /\ self.feat_dim = None /\ ret'.op \in Fits
           /\ ret'.err = "RuntimeError" /\ ret'.at = "initialize")
        => /\ ret'.d <= self.num_phi
           /\ self'.feat_dim = ret'.d
           /\ self.labels = NoneL =>
                \E y \in Ys : Len(unique(y)) = ret'.k /\ self'.labels = unique(y)
           /\ self.labels # NoneL => self'.labels = self.labels
           /\ Allocated(self') = <<NoneM, NoneM, NoneM, NoneM>>
           /\ ~ is_fitted(self')]_vars
  /\ [][self.feat_dim # None => self'.feat_dim # None]_vars
  /\ [][(fitpc = "idle" /\ self.feat_dim # None /\ ret'.op \in Fits)
        => /\ Allocated(self') = Allocated(self)
           /\ self'.rand_state = self.rand_state
           /\ self'.feat_dim = self.feat_dim /\ self'.labels = self.labels]_vars

\* after a first call rejected for feat_dim <= num_phi, a later call was
\* made: nothing is allocated and feat_dim is the rejected dimension
C26_Witness ==
  /\ fitpc = "idle" /\ ret.op \in Fits /\ ret.err = "AttributeError"
  /\ self.feat_dim # None /\ self.feat_dim <= self.num_phi
  /\ self.labels # NoneL
  /\ Allocated(self) = <<NoneM, NoneM, NoneM, NoneM>>
  /\ ~ is_fitted(self)

\* ---------------------------------------------------------------- properties of the per-class sums
\* fit has reached its first expectation step
ReachedExpectation == mt.fn = "fit" /\ mt.called /\ mt.err = NoErr /\ mt.out.at = "E"

\* the labels that occur in y
LabelsIn(y) == {y[i] : i \in 1..Len(y)}

\* coordinate j of the sum of the samples labelled c
SumOfClass(c, j) ==
  LET of_c == {i \in 1..Len(mt.args.y) : mt.args.y[i] = c}
      upto[k \in 0..Len(mt.args.y)] ==
        IF k = 0 THEN 0
        ELSE upto[k - 1] + (IF k \in of_c THEN mt.args.X[k][j] ELSE 0)
  IN upto[Len(mt.args.y)]

\* C27: when fit reaches its first expectation step the labels in y are
\* exactly 0..K-1, F has K rows and y_counts K entries, row c of F is the
\* sum of the samples labelled c and y_counts[c] is their number; a
\* labelling that is not exactly 0..K-1 has raised before.
C27_LabelsAlignFAndCounts ==
  /\ ReachedExpectation =>
       LET K == mt.out.K IN
       /\ K = Cardinality(LabelsIn(mt.args.y))
       /\ LabelsIn(mt.args.y) = 0..(K - 1)
       /\ Len(mt.out.F) = K /\ Len(mt.out.y_counts) = K
       /\ \A c \in 0..(K - 1) :
            /\ \A j \in 1..2 : mt.out.F[c + 1][j] = SumOfClass(c, j)
            /\ mt.out.y_counts[c + 1] =
                 Cardinality({i \in 1..Len(mt.args.y) : mt.args.y[i] = c})
  /\ (mt.fn = "fit" /\ mt.called
        /\ LabelsIn(mt.args.y) # 0..(Cardinality(LabelsIn(mt.args.y)) - 1))
       => (mt.err # NoErr /\ mt.out.at \in {"assert", "bincount", "initialize", "F"})

\* the first expectation step was reached with two classes, samples
\* given in the order 1, 0, 1, and different sums for the two classes
C27_Witness ==
  /\ ReachedExpectation
  /\ mt.args.y = <<1, 0, 1>>
  /\ mt.out.K = 2
  /\ mt.out.y_counts = <<1, 2>>
  /\ mt.out.F[1] # mt.out.F[2]

SingleClassClusters == {k \in 1..Len(ClustersOf) : Len(ClustersOf[k]) = 1}

\* C29: a Cavg call on arrays in which some cluster holds exactly one class
\* (the default cluster of a one-column y_llr included) returns no cost:
\* it raises, and when every class named is a column of y_llr and no
\* cluster is empty, what it raises is the division by L - 1 = 0, whether
\* or not the class has samples.
C29_SingleClassClusterHasNoCost ==
  (CavgCalled /\ SingleClassClusters # {}) =>
    /\ mt.err # NoErr
    /\ mt.out.cluster_cost = <<>>
    /\ ~ Finite(mt.out.total_cost)
    /\ (\A k \in 1..Len(ClustersOf) :
          /\ Len(ClustersOf[k]) >= 1
          /\ \A i \in 1..Len(ClustersOf[k]) : ClustersOf[k][i] < mt.args.nb_classes)
         => mt.err = "ZeroDivisionError"

\* Cavg was called on a one-column y_llr with the default cluster and a
\* sample of the only class
C29_Witness ==
  /\ CavgCalled /\ mt.args.cluster_idx = NoneC /\ mt.args.nb_classes = 1
  /\ SamplesOf(0) # {}
  /\ SingleClassClusters = {1}
  /\ mt.err = "ZeroDivisionError"

\* ---------------------------------------------------------------- training and deploying roles
Modes == {"TrainingRole", "DeployingRole"}

\* role r is in the list q
HasRole(q, r) == \E i \in 1..Len(q) : q[i] = r

\* the roles of q that are neither a TrainingRole nor a DeployingRole
NotModes(q) == SelectSeq(q, LAMBDA r : r \notin Modes)

\* C30: the role list never holds both a TrainingRole and a DeployingRole,
\* nor one of them twice; adding TRAINING leaves a list with TRAINING and
\* without DeployingRole, adding DEPLOYING one with DEPLOYING and without
\* TrainingRole, and in both cases the other roles stay where they were,
\* in their order; adding any other role neither adds nor removes one of
\* the two, so the one present is the one added last.
C30_OneModeTheLastAdded ==
  /\ [](/\ ~ (HasRole(tag.roles, "TrainingRole") /\ HasRole(tag.roles, "DeployingRole"))
        /\ \A m \in Modes :
             Cardinality({i \in 1..Len(tag.roles) : tag.roles[i] = m}) <= 1)
  /\ [][/\ tag'.added = "TrainingRole" =>
             /\ HasRole(tag'.roles, "TrainingRole")
             /\ ~ HasRole(tag'.roles, "DeployingRole")
             /\ NotModes(tag'.roles) = NotModes(tag.roles)
             /\ tag'.roles =
                  SelectSeq(tag.roles, LAMBDA r : r # "DeployingRole")
                    \o (IF HasRole(tag.roles, "TrainingRole") THEN <<>>
                        ELSE <<"TrainingRole">>)
        /\ tag'.added = "DeployingRole" =>
             /\ HasRole(tag'.roles, "DeployingRole")
             /\ ~ HasRole(tag'.roles, "TrainingRole")
             /\ NotModes(tag'.roles) = NotModes(tag.roles)
             /\ tag'.roles =
                  SelectSeq(tag.roles, LAMBDA r : r # "TrainingRole")
                    \o (IF HasRole(tag.roles, "DeployingRole") THEN <<>>
                        ELSE <<"DeployingRole">>)
        /\ tag'.added \notin Modes =>
             \A m \in Modes : HasRole(tag'.roles, m) = HasRole(tag.roles, m)]_vars

\* DEPLOYING was just added: it is last in a list of three, behind two roles
\* that are neither a TrainingRole nor a DeployingRole
C30_Witness ==
  /\ tag.roles_set /\ tag.added = "DeployingRole"
  /\ Len(tag.roles) = 3
  /\ tag.roles[1] \notin Modes /\ tag.roles[2] \notin Modes
  /\ tag.roles[1] # "VariableRole"
  /\ tag.roles[3] = "DeployingRole"

====
